---- MODULE Spec2Model ----
(***************************************************************************)
(* A model of the post-generation reconciliation pipeline of mistakepatch  *)
(* (backend/app/services/analyzer.py).                                     *)
(*                                                                         *)
(* Numbers.  Every float of the program (scores, rubric dimensions, point  *)
(* deductions, confidences, agreement, x values) is an integer count of    *)
(* thousandths: 7.0 is 7000, 0.05 is 50.  round(v, 2) is rounding to a     *)
(* multiple of 10, round(v, 1) to a multiple of 100.  A quotient is        *)
(* carried as numerator and denominator and rounded exactly (ties to even, *)
(* as Python's round).                                                     *)
(*                                                                         *)
(* Texts.  A Python string that the code only measures, compares with the  *)
(* boilerplate phrases, tokenises or concatenates is a record              *)
(* [len, toks]: its length after whitespace normalisation and the set of   *)
(* its word tokens.  The Korean phrases of the source are named by ASCII   *)
(* tokens.  An evidence string is [step, rule, body]: the provenance tag   *)
(* that _PROVENANCE_PATTERN would match (step = "" and rule = "" when the  *)
(* string carries no tag) and the text after it.                           *)
(***************************************************************************)
EXTENDS Integers, Sequences, FiniteSets, TLC

(***************************************************************************)
(* Bounds of the model.                                                    *)
(***************************************************************************)
MaxMistakes == 2
MaxFindings == 2
MaxRuns == 2
MaxBoxes == 2

(***************************************************************************)
(* Program constants.                                                      *)
(***************************************************************************)
MaxMistakeCount == 20
MaxMissingInfo == 6
MaxChecklist == 3
UncertaintyThreshold == 600
ConsensusMinAgreement == 550
ReviewCeiling == 8800
ScoreFloor == 8000
ScoreCap == 7000
XTolerance == 50

RubricKeys == <<"conditions", "modeling", "logic", "calculation", "final">>

(***************************************************************************)
(* Arithmetic helpers.                                                     *)
(***************************************************************************)
Min(a, b) == IF a <= b THEN a ELSE b
Max(a, b) == IF a >= b THEN a ELSE b
Abs(a) == IF a < 0 THEN -a ELSE a

\* max(min_value, min(max_value, value))
_clamp(value, min_value, max_value) == Max(min_value, Min(max_value, value))

\* The integer nearest to n/d (d > 0), ties to the even one.
RoundHalfEven(n, d) ==
  LET q == n \div d
      r == n % d
  IN IF 2 * r < d THEN q
     ELSE IF 2 * r > d THEN q + 1
     ELSE IF q % 2 = 0 THEN q ELSE q + 1

\* round(n/d, 2), n/d in thousandths.
round2(n, d) == 10 * RoundHalfEven(n, 10 * d)

\* round(n/d, 3)
round3(n, d) == RoundHalfEven(n, d)

\* round(value + 1e-9, 1): the nudge makes every tie round up.
_round_to_tenth(value) == 100 * ((value + 50) \div 100)

\* `_to_float(v) or default`: a zero is falsy and gives the default.
OrDefault(v, default) == IF v = 0 THEN default ELSE v

RECURSIVE SeqSum(_)
SeqSum(s) == IF s = <<>> THEN 0 ELSE Head(s) + SeqSum(Tail(s))

Prefix(s, n) == SubSeq(s, 1, Min(Len(s), n))

\* sorted(s, key=..., reverse=True): stable, descending; keys[i] is the key
\* of s[i].  Python's reverse sort keeps the original order of equal keys.
RECURSIVE InsertDesc(_, _)
InsertDesc(x, s) ==
  IF s = <<>> THEN <<x>>
  ELSE IF Head(s).k < x.k THEN <<x>> \o s
  ELSE <<Head(s)>> \o InsertDesc(x, Tail(s))

RECURSIVE SortPairsDesc(_)
SortPairsDesc(s) ==
  IF s = <<>> THEN <<>>
  ELSE InsertDesc(s[Len(s)], SortPairsDesc(SubSeq(s, 1, Len(s) - 1)))

SortDesc(s, keys) ==
  LET pairs == [i \in 1..Len(s) |-> [k |-> keys[i], v |-> s[i]]]
      sorted == SortPairsDesc(pairs)
  IN [i \in 1..Len(s) |-> sorted[i].v]

(***************************************************************************)
(* Texts.                                                                  *)
(***************************************************************************)
Text(len, toks) == [len |-> len, toks |-> toks]
EmptyText == Text(0, {})
Concat(a, b) == Text(a.len + b.len, a.toks \cup b.toks)

\* _clean_text: the whitespace-normalised value cut to max_len, or the default.
_clean_text(value, default, max_len) ==
  IF value.len > 0 THEN Text(Min(value.len, max_len), value.toks)
  ELSE Text(Min(default.len, max_len), default.toks)

\* The two phrases of _DEFAULT_GENERIC_EVIDENCE.
GenericEvidenceA == Text(21, {"generic_evidence"})
GenericEvidenceB == Text(28, {"generic_fix"})
_DEFAULT_GENERIC_EVIDENCE == {GenericEvidenceA, GenericEvidenceB}

\* "근거: " and " 반례: ", the labels _format_provenance_evidence writes.
ReasonLabel == Text(4, {"reason_label"})
CounterLabel == Text(5, {"counter_label"})
\* "근거 부족으로 자동 감점을 보류했습니다."
HoldReason == Text(22, {"hold_reason"})
\* " 추가근거: "
ExtraLabel == Text(7, {"extra_label"})

(***************************************************************************)
(* Severity, mistake types, rules.                                         *)
(***************************************************************************)
Severities == {"low", "med", "high"}

\* _normalize_severity: anything but low/med/high is low.
_normalize_severity(value) == IF value \in Severities THEN value ELSE "low"

_severity_rank(severity) ==
  LET normalized == _normalize_severity(severity)
  IN IF normalized = "high" THEN 2 ELSE IF normalized = "med" THEN 1 ELSE 0

_higher_severity(existing, current) ==
  LET existing_value == _normalize_severity(existing)
      current_value == _normalize_severity(current)
  IN IF _severity_rank(current_value) > _severity_rank(existing_value)
     THEN current_value ELSE existing_value

_default_rule_for_mistake_type(mtype) ==
  IF mtype = "FINAL_FORM_ERROR" THEN "RULE_FINAL_SUBSTITUTION"
  ELSE IF mtype \in {"SIGN_ERROR", "ARITHMETIC_ERROR", "ALGEBRA_ERROR", "LOGIC_GAP"}
       THEN "RULE_EQUIV_TRANSFORM"
  ELSE "RULE_GENERAL_CONSISTENCY"

(***************************************************************************)
(* Provenance tags.                                                        *)
(***************************************************************************)
\* "[step:" step "][rule:" rule "] " : the characters of the tag.
TagLen(step_id, rule) == Len(step_id) + Len(rule) + 15

Evidence(step_id, rule, body) == [step |-> step_id, rule |-> rule, body |-> body]

\* An evidence string without a tag.
Untagged(body) == Evidence("", "", body)

HasTag(evidence) == evidence.step # "" /\ evidence.rule # ""

_format_provenance_evidence(step_id, rule, reason, counterexample) ==
  LET with_reason == Concat(ReasonLabel, _clean_text(reason, HoldReason, 160))
      body == IF counterexample.len > 0
              THEN Concat(Concat(with_reason, CounterLabel),
                          _clean_text(counterexample, EmptyText, 60))
              ELSE with_reason
  IN Evidence(step_id, rule,
              Text(Min(body.len, 240 - TagLen(step_id, rule)), body.toks))

\* (step_id or None, rule or None, body); None is "".
_parse_provenance(evidence) ==
  IF ~HasTag(evidence)
  THEN [step |-> "", rule |-> "", body |-> _clean_text(evidence.body, EmptyText, 240)]
  ELSE [step |-> evidence.step, rule |-> evidence.rule,
        body |-> _clean_text(evidence.body, EmptyText, 180)]

\* Every reason taken as actionable.
_has_actionable_reason_always(reason) == TRUE

_has_actionable_reason(reason) ==
  LET cleaned == _clean_text(reason, EmptyText, 180)
  IN IF cleaned.len < 8 THEN FALSE ELSE cleaned \notin _DEFAULT_GENERIC_EVIDENCE

\* Token Jaccard similarity >= 0.7
SimilarTexts(first, second) ==
  IF first.toks = {} /\ second.toks = {} THEN TRUE
  ELSE IF first.toks = {} \/ second.toks = {} THEN FALSE
  ELSE 10 * Cardinality(first.toks \cap second.toks)
         >= 7 * Cardinality(first.toks \cup second.toks)

(***************************************************************************)
(* Steps of the verification report.  steps is the sequence of the step    *)
(* texts; the step at position k has step_id "s<k>" (valid for k <= 9,     *)
(* where the string order of the ids is their numeric order).              *)
(***************************************************************************)
StepId(k) == "s" \o ToString(k)

\* The step the (ratio, step_id) sort puts first: the greatest Jaccard
\* ratio, the greatest id among equals; 0 when no step has tokens.
BestJaccardStep(hint, steps) ==
  LET cand == {k \in 1..Len(steps) : steps[k].toks # {}}
      ov(k) == Cardinality(hint.toks \cap steps[k].toks)
      un(k) == Cardinality(hint.toks \cup steps[k].toks)
      better(j, k) == ov(j) * un(k) > ov(k) * un(j)
                        \/ (ov(j) * un(k) = ov(k) * un(j) /\ j > k)
  IN IF cand = {} THEN 0
     ELSE CHOOSE j \in cand : \A k \in cand \ {j} : better(j, k)

\* _infer_step_id: "" is None.  The ordinal keywords of the hint are the
\* tokens kw_last, kw_first, kw_second, kw_third.
_infer_step_id(location_hint, steps) ==
  LET n == Len(steps)
      hint == _clean_text(location_hint, EmptyText, 120)
      best == BestJaccardStep(hint, steps)
  IN IF n = 0 THEN ""
     ELSE IF hint.len = 0 THEN StepId(n)
     ELSE IF "kw_last" \in hint.toks THEN StepId(n)
     ELSE IF "kw_first" \in hint.toks THEN StepId(1)
     ELSE IF "kw_second" \in hint.toks /\ n >= 2 THEN StepId(2)
     ELSE IF "kw_third" \in hint.toks /\ n >= 3 THEN StepId(3)
     ELSE IF hint.toks = {} THEN StepId(n)
     ELSE IF best = 0 THEN StepId(n)
     ELSE StepId(best)

OrStr(s, default) == IF s = "" THEN default ELSE s

(***************************************************************************)
(* Mistakes, findings, results.                                            *)
(***************************************************************************)
Mistake(type, severity, points, evidence, fix, location) ==
  [type |-> type, severity |-> severity, points_deducted |-> points,
   evidence |-> evidence, fix_instruction |-> fix, location_hint |-> location]

Finding(step_id, rule, passed, reason, counterexample) ==
  [step_id |-> step_id, rule |-> rule, passed |-> passed, reason |-> reason,
   counterexample |-> counterexample]

\* bool(finding.counterexample)
HasCounterexample(finding) == finding.counterexample.len > 0

RubricSum(rubric) == SeqSum([i \in 1..5 |-> rubric[RubricKeys[i]]])

PointsOf(mistakes) == [i \in 1..Len(mistakes) |-> mistakes[i].points_deducted]

FailedFindings(report) == SelectSeq(report.findings, LAMBDA f : ~f.passed)

\* location_by_step.get(finding.step_id), else "<step_id> 단계"
StepLocation(step_id, steps) ==
  LET at == {k \in 1..Len(steps) : StepId(k) = step_id}
  IN IF at # {} THEN steps[CHOOSE k \in at : TRUE]
     ELSE Text(Len(step_id) + 3, {step_id, "stage"})

(***************************************************************************)
(* _inject_verification_findings                                           *)
(***************************************************************************)
GeneratedMistake(finding, steps) ==
  LET final == finding.rule = "RULE_FINAL_SUBSTITUTION"
  IN Mistake(IF final THEN "FINAL_FORM_ERROR" ELSE "LOGIC_GAP",
             IF final THEN "high" ELSE "med",
             IF final THEN 1500 ELSE 500,
             _format_provenance_evidence(finding.step_id, finding.rule,
                                         finding.reason, finding.counterexample),
             IF final THEN "fix_substitute_final" ELSE "fix_expand_steps",
             _clean_text(StepLocation(finding.step_id, steps),
                         Text(Len(finding.step_id) + 3, {finding.step_id, "stage"}),
                         120))

\* The injection without its cut to 20 entries.
_inject_verification_findings_uncut(result, report) ==
  LET failed == FailedFindings(report)
      generated == [i \in 1..Len(failed) |-> GeneratedMistake(failed[i], report.steps)]
  IN [result EXCEPT !.mistakes = generated \o result.mistakes]

_inject_verification_findings(result, report) ==
  LET failed == FailedFindings(report)
      generated == [i \in 1..Len(failed) |-> GeneratedMistake(failed[i], report.steps)]
  IN IF failed = <<>> THEN result
     ELSE [result EXCEPT !.mistakes = Prefix(generated \o result.mistakes, MaxMistakeCount)]

(***************************************************************************)
(* _enforce_evidence_gate                                                  *)
(***************************************************************************)
\* "OCR 검증 정보 부족: 모델 감점 근거를 보류 없이 반영"
UnverifiedReason == Text(32, {"unverified_reason"})

GateHoldNote(idx) == "mistake#" \o ToString(idx) \o ": evidence_gate_hold"
GateUnverifiedNote(idx) == "mistake#" \o ToString(idx) \o ": evidence_unverified_model"

\* The reason text the gate judges: the parsed body, or the cleaned evidence.
GateReasonText(mistake) ==
  LET parsed == _parse_provenance(mistake.evidence)
  IN IF parsed.body.len > 0 THEN parsed.body
     ELSE IF HasTag(mistake.evidence)
          THEN \* a bare tag: the whole evidence string is the reason
               Text(Min(TagLen(mistake.evidence.step, mistake.evidence.rule) - 1, 180),
                    {"step", "rule", mistake.evidence.step, mistake.evidence.rule})
     ELSE _clean_text(mistake.evidence.body, EmptyText, 180)

GateHasContext(report) == report.findings # <<>> \/ report.steps # <<>>

\* The gate without its stamp.
GateMistake_unstamped(mistake, report) == mistake

\* One mistake through the gate.
GateMistake(mistake, report) ==
  LET parsed == _parse_provenance(mistake.evidence)
      inferred_step ==
        OrStr(parsed.step,
              OrStr(_infer_step_id(mistake.location_hint, report.steps),
                    IF report.steps # <<>> THEN StepId(Len(report.steps)) ELSE "s0"))
      inferred_rule == OrStr(parsed.rule, _default_rule_for_mistake_type(mistake.type))
      has_reason == _has_actionable_reason(GateReasonText(mistake))
      held == ~has_reason /\ GateHasContext(report)
      floored == ~has_reason /\ ~GateHasContext(report) /\ mistake.points_deducted <= 0
      reason_text == IF has_reason THEN GateReasonText(mistake)
                     ELSE IF GateHasContext(report) THEN HoldReason
                     ELSE UnverifiedReason
  IN [mistake EXCEPT
        !.points_deducted = IF held THEN 0 ELSE IF floored THEN 300 ELSE @,
        !.severity = IF held \/ floored THEN "low" ELSE @,
        !.evidence = _format_provenance_evidence(inferred_step, inferred_rule,
                                                 reason_text, EmptyText)]

RECURSIVE GateNotes(_, _, _, _)
GateNotes(mistakes, report, idx, missing_info) ==
  IF idx > Len(mistakes) THEN missing_info
  ELSE LET has_reason == _has_actionable_reason(GateReasonText(mistakes[idx]))
           hold_note == IF GateHasContext(report) THEN GateHoldNote(idx)
                        ELSE GateUnverifiedNote(idx)
           present == \E i \in 1..Len(missing_info) : missing_info[i] = hold_note
       IN GateNotes(mistakes, report, idx + 1,
                    IF ~has_reason /\ ~present THEN Append(missing_info, hold_note)
                    ELSE missing_info)

_enforce_evidence_gate(result, report) ==
  LET adjusted == [i \in 1..Len(result.mistakes) |-> GateMistake(result.mistakes[i], report)]
  IN [result EXCEPT
        !.mistakes = Prefix(adjusted, MaxMistakeCount),
        !.missing_info = Prefix(GateNotes(result.mistakes, report, 1, result.missing_info),
                                MaxMissingInfo)]

(***************************************************************************)
(* _dedupe_mistakes_by_step_rule                                           *)
(***************************************************************************)
StepRuleKey(mistake) ==
  LET parsed == _parse_provenance(mistake.evidence)
  IN <<OrStr(parsed.step, "s0"),
       OrStr(parsed.rule, _default_rule_for_mistake_type(mistake.type))>>

\* The first mistake of a key kept as it is.
DedupMerge_keep_first(existing, mistake, key) == existing

\* The grouped entry after a second mistake with its key arrives.
DedupMerge(existing, mistake, key) ==
  LET body == _parse_provenance(mistake.evidence).body
      ep == _parse_provenance(existing.evidence)
      similar == SimilarTexts(body, ep.body)
      merged_reason ==
        _clean_text(Concat(Concat(ep.body, ExtraLabel), body),
                    IF ep.body.len > 0 THEN ep.body ELSE body, 180)
      merged_evidence ==
        _format_provenance_evidence(OrStr(ep.step, key[1]), OrStr(ep.rule, key[2]),
                                    merged_reason, EmptyText)
      severity == _higher_severity(existing.severity, mistake.severity)
  IN IF mistake.points_deducted > existing.points_deducted
     THEN [existing EXCEPT
             !.type = mistake.type,
             !.fix_instruction = mistake.fix_instruction,
             !.location_hint = mistake.location_hint,
             !.severity = severity,
             !.points_deducted = mistake.points_deducted,
             !.evidence = IF similar THEN mistake.evidence ELSE merged_evidence]
     ELSE [existing EXCEPT
             !.points_deducted = Max(existing.points_deducted, mistake.points_deducted),
             !.severity = severity,
             !.evidence = IF ~similar THEN merged_evidence ELSE @]

\* grouped: the dict, in insertion order, as a sequence of [key, m].
RECURSIVE DedupGroup(_, _)
DedupGroup(mistakes, grouped) ==
  IF mistakes = <<>> THEN grouped
  ELSE LET mistake == Head(mistakes)
           key == StepRuleKey(mistake)
           at == {i \in 1..Len(grouped) : grouped[i].key = key}
       IN IF at = {} THEN DedupGroup(Tail(mistakes), Append(grouped, [key |-> key, m |-> mistake]))
          ELSE LET i == CHOOSE j \in at : TRUE
               IN DedupGroup(Tail(mistakes),
                             [grouped EXCEPT ![i].m = DedupMerge(@, mistake, key)])

\* The sort key (points, severity rank) as one number.
PointsSeverityKey(m) == m.points_deducted * 3 + _severity_rank(m.severity)

_dedupe_mistakes_by_step_rule(result) ==
  LET grouped == DedupGroup(result.mistakes, <<>>)
      deduped == [i \in 1..Len(grouped) |-> grouped[i].m]
      sorted == SortDesc(deduped, [i \in 1..Len(deduped) |-> PointsSeverityKey(deduped[i])])
  IN [result EXCEPT !.mistakes = Prefix(sorted, MaxMistakeCount)]

(***************************************************************************)
(* _apply_verified_wrong_final_cap                                         *)
(***************************************************************************)
\* "최종 답 줄": holds the keyword "최종".
FinalLineHint == Text(6, {"kw_last", "answer", "line"})

FinalFailures(report) ==
  SelectSeq(report.findings, LAMBDA f : ~f.passed /\ f.rule = "RULE_FINAL_SUBSTITUTION")

\* Index of the first FINAL_FORM_ERROR mistake, 0 when there is none.
FirstFinalMistake(mistakes) ==
  LET at == {i \in 1..Len(mistakes) : mistakes[i].type = "FINAL_FORM_ERROR"}
  IN IF at = {} THEN 0 ELSE CHOOSE i \in at : \A j \in at : i <= j

\* The cap that only inserts a mistake when the list has no FINAL_FORM_ERROR.
CapMistakes_insert_only(mistakes, failure) ==
  IF FirstFinalMistake(mistakes) = 0
  THEN <<Mistake("FINAL_FORM_ERROR", "high", 1800,
                 _format_provenance_evidence(failure.step_id, failure.rule,
                                             failure.reason, failure.counterexample),
                 "fix_substitute_final_answer", FinalLineHint)>> \o mistakes
  ELSE mistakes

CapMistakes(mistakes, failure) ==
  LET evidence == _format_provenance_evidence(failure.step_id, failure.rule,
                                              failure.reason, failure.counterexample)
      i == FirstFinalMistake(mistakes)
  IN IF i = 0
     THEN <<Mistake("FINAL_FORM_ERROR", "high", 1800, evidence,
                    "fix_substitute_final_answer", FinalLineHint)>> \o mistakes
     ELSE [mistakes EXCEPT
             ![i].severity = "high",
             ![i].points_deducted = Max(@, 1800),
             ![i].evidence = evidence,
             ![i].fix_instruction = "fix_substitute_final_answer"]

CapRubric(rubric) ==
  [key \in DOMAIN rubric |->
     IF key = "final" THEN Min(OrDefault(rubric[key], 600), 800)
     ELSE IF key = "logic" THEN Min(OrDefault(rubric[key], 1100), 1600)
     ELSE _clamp(OrDefault(rubric[key], 1200), 0, 2000)]

_apply_verified_wrong_final_cap(result, report) ==
  LET final_failures == FinalFailures(report)
      current_score == OrDefault(result.score_total, 10000)
      capped == IF current_score > ScoreCap THEN ScoreCap ELSE result.score_total
      rubric == CapRubric(result.rubric_scores)
  IN IF final_failures = <<>> THEN result
     ELSE [result EXCEPT
             !.mistakes = Prefix(CapMistakes(result.mistakes, final_failures[1]),
                                 MaxMistakeCount),
             !.rubric_scores = rubric,
             !.score_total = round2(Min(Min(OrDefault(capped, ScoreCap), RubricSum(rubric)),
                                        ScoreCap), 1),
             !.confidence = round2(Min(OrDefault(result.confidence, 700), 720), 1)]

(***************************************************************************)
(* _apply_uncertainty_policy                                               *)
(***************************************************************************)
\* value * target / total, clamped to [0, 2] and rounded to 2 places.
ScaleRubricValue(value, target, total) ==
  _clamp(round2(value * target, total), 0, 2000)

ScaleRubric(rubric, target) ==
  LET total == RubricSum(rubric)
  IN IF total > 0
     THEN [key \in DOMAIN rubric |-> ScaleRubricValue(rubric[key], target, total)]
     ELSE [key \in DOMAIN rubric |-> Min(2000, round2(target, 5))]

BlendedConfidence(result, report, consensus_meta) ==
  round2(_clamp(5 * result.confidence + 3 * report.confidence
                  + 2 * consensus_meta.agreement, 0, 10000), 10)

\* No finding taken as a verified critical failure.
HasVerifiedCriticalFailure_none(report) == FALSE

HasVerifiedCriticalFailure(report) ==
  \E i \in 1..Len(report.findings) :
     /\ ~report.findings[i].passed
     /\ report.findings[i].rule \in {"RULE_FINAL_SUBSTITUTION", "RULE_EQUIV_TRANSFORM"}
     /\ HasCounterexample(report.findings[i])

\* expected_x and observed_x are <<>> (None) or <<value>>.
HasVerificationContext(report) ==
  report.findings # <<>> \/ report.expected_x # <<>> \/ report.observed_x # <<>>

ShouldHold(result, report, consensus_meta) ==
  /\ \/ BlendedConfidence(result, report, consensus_meta) < UncertaintyThreshold
     \/ consensus_meta.agreement < ConsensusMinAgreement
     \/ report.requires_review
  /\ ~HasVerifiedCriticalFailure(report)
  /\ HasVerificationContext(report)

\* "자동 판정 근거가 부족해 감점을 보류했습니다."
PlaceholderReason == Text(25, {"placeholder_reason"})
\* "전체 풀이"
WholeSolutionHint == Text(5, {"whole", "solution"})
\* "근거 불충분" and " -> 자동 감점 보류(검토 필요)"
InsufficientReason == Text(6, {"insufficient"})
HoldSuffix == Text(19, {"hold_suffix"})

_make_review_placeholder ==
  Mistake("LOGIC_GAP", "low", 0,
          _format_provenance_evidence("s0", "RULE_REVIEW_REQUIRED", PlaceholderReason,
                                      EmptyText),
          "fix_review_each_line", WholeSolutionHint)

HoldMistake(mistake) ==
  LET parsed == _parse_provenance(mistake.evidence)
      reason == _clean_text(
                  Concat(IF parsed.body.len > 0 THEN parsed.body ELSE InsufficientReason,
                         HoldSuffix),
                  HoldReason, 180)
  IN [mistake EXCEPT
        !.points_deducted = 0,
        !.severity = "low",
        !.evidence = _format_provenance_evidence(OrStr(parsed.step, "s0"),
                                                 OrStr(parsed.rule, "RULE_REVIEW_REQUIRED"),
                                                 reason, EmptyText)]

\* "검토 필요: 자동 감점 보류 (confidence=.., agreement=..)"
\* "0.67" for 670: the :.2f rendering of a value in [0, 1]; the third decimal
\* of the values formatted here is always 0.
Format2(v) ==
  ToString(v \div 1000) \o "." \o ToString((v % 1000) \div 100)
     \o ToString((v % 100) \div 10)

ReviewNote(blended_conf, agreement) ==
  "review_needed(confidence=" \o Format2(blended_conf) \o ", agreement="
     \o Format2(agreement) \o ")"

InSeq(x, s) == \E i \in 1..Len(s) : s[i] = x

\* The hold score with the ceiling only.
HoldScore_ceiling_only(score) == Min(score, ReviewCeiling)

HoldScore(score) ==
  IF score > ReviewCeiling THEN ReviewCeiling
  ELSE IF score < ScoreFloor THEN ScoreFloor ELSE score

HoldRubric(rubric, score) ==
  IF score > ReviewCeiling THEN ScaleRubric(rubric, ReviewCeiling)
  ELSE IF score < ScoreFloor
       THEN [key \in DOMAIN rubric |-> Max(rubric[key], round2(ScoreFloor, 5))]
  ELSE rubric

_apply_uncertainty_policy(result, report, consensus_meta) ==
  LET blended_conf == BlendedConfidence(result, report, consensus_meta)
      mistakes == IF result.mistakes = <<>> THEN <<_make_review_placeholder>>
                  ELSE result.mistakes
      review_note == ReviewNote(blended_conf, consensus_meta.agreement)
  IN IF ~ShouldHold(result, report, consensus_meta)
     THEN [result EXCEPT !.confidence = blended_conf]
     ELSE [result EXCEPT
             !.confidence = blended_conf,
             !.mistakes = Prefix([i \in 1..Len(mistakes) |-> HoldMistake(mistakes[i])],
                                 MaxMistakeCount),
             !.score_total = HoldScore(result.score_total),
             !.rubric_scores = HoldRubric(result.rubric_scores, result.score_total),
             !.missing_info =
                Prefix(IF InSeq(review_note, @) THEN @ ELSE Append(@, review_note),
                       MaxMissingInfo),
             !.next_checklist =
                Prefix(IF @ # <<>> THEN [@ EXCEPT ![1] = "review_first"]
                       ELSE <<"review_first">>, MaxChecklist)]

(***************************************************************************)
(* _apply_answer_verdict_policy                                            *)
(***************************************************************************)
Verdicts == {"correct", "incorrect", "unknown"}

\* _normalize_answer_verdict on a stored verdict; "" is an absent one.
_normalize_answer_verdict(value) == IF value \in Verdicts THEN value ELSE "unknown"

FinalChecks(report) ==
  SelectSeq(report.findings, LAMBDA f : f.rule = "RULE_FINAL_SUBSTITUTION")

TransformFindings(report) ==
  SelectSeq(report.findings, LAMBDA f : f.rule = "RULE_EQUIV_TRANSFORM")

\* Some finding of the sequence passed / failed / failed with a counterexample.
AnyPassed(findings) == \E i \in 1..Len(findings) : findings[i].passed
AnyFailed(findings) == \E i \in 1..Len(findings) : ~findings[i].passed
AnyRefuted(findings) ==
  \E i \in 1..Len(findings) : ~findings[i].passed /\ HasCounterexample(findings[i])

\* The derivation with the passing final check ahead of the refuted one.
_derive_answer_verdict_pass_first(report) ==
  IF AnyPassed(FinalChecks(report)) THEN "correct"
  ELSE IF AnyRefuted(FinalChecks(report)) THEN "incorrect"
  ELSE IF AnyRefuted(TransformFindings(report)) THEN "incorrect"
  ELSE IF report.expected_x # <<>> /\ report.observed_x # <<>>
  THEN IF Abs(report.expected_x[1] - report.observed_x[1]) <= XTolerance
       THEN "correct" ELSE "incorrect"
  ELSE "unknown"

\* The verdict of _derive_answer_verdict (its reason text is replaced by
\* _stable_verdict_reason before it is stored).
_derive_answer_verdict(report) ==
  IF AnyRefuted(FinalChecks(report)) THEN "incorrect"
  ELSE IF AnyPassed(FinalChecks(report)) THEN "correct"
  ELSE IF AnyRefuted(TransformFindings(report)) THEN "incorrect"
  ELSE IF report.expected_x # <<>> /\ report.observed_x # <<>>
  THEN IF Abs(report.expected_x[1] - report.observed_x[1]) <= XTolerance
       THEN "correct" ELSE "incorrect"
  ELSE "unknown"

_stable_verdict_reason(verdict, report, used_existing_signal) ==
  IF verdict = "correct"
  THEN IF used_existing_signal THEN "correct: auxiliary check agrees"
       ELSE IF AnyPassed(FinalChecks(report))
            THEN "correct: final answer check passed"
       ELSE IF report.expected_x # <<>> /\ report.observed_x # <<>>
            THEN "correct: final answer equals expected"
       ELSE "correct: judged correct by verification"
  ELSE IF verdict = "incorrect"
  THEN IF used_existing_signal THEN "incorrect: auxiliary check disagrees"
       ELSE IF AnyFailed(FinalChecks(report))
            THEN "incorrect: final answer check failed"
       ELSE IF AnyFailed(TransformFindings(report))
            THEN "incorrect: step transform broke equivalence"
       ELSE IF report.expected_x # <<>> /\ report.observed_x # <<>>
            THEN "incorrect: final answer differs from expected"
       ELSE "incorrect: verification shows wrong answer"
  ELSE "verdict held: verification information missing"

\* _estimate_logic_quality, in ten-thousandths (it is rounded to 4 places).
_estimate_logic_quality(result, report) ==
  LET rubric == result.rubric_scores
      base == Min(rubric["conditions"] + rubric["modeling"] + rubric["logic"]
                    + rubric["calculation"], 8000)
      transform_findings == TransformFindings(report)
      n == Len(transform_findings)
      transform_pass == Len(SelectSeq(transform_findings, LAMBDA f : f.passed))
  IN IF n = 0 THEN _clamp(RoundHalfEven(5 * base, 4), 0, 10000)
     ELSE _clamp(RoundHalfEven(13 * base * n + 56000 * transform_pass, 16 * n), 0, 10000)

_rescale_rubric_to_score(rubric, score_total, verdict) ==
  LET current_sum == RubricSum(rubric)
      scaled == IF current_sum <= 0
                THEN [key \in DOMAIN rubric |-> _clamp(round2(score_total, 5), 0, 2000)]
                ELSE [key \in DOMAIN rubric |->
                        ScaleRubricValue(rubric[key], score_total, current_sum)]
  IN IF verdict = "incorrect" THEN [scaled EXCEPT !["final"] = Min(@, 800)]
     ELSE IF verdict = "correct" THEN [scaled EXCEPT !["final"] = Max(@, 1200)]
     ELSE scaled

\* The prior signal kept whenever the result asserted one.
PolicyVerdict_prior_first(result, report) ==
  IF _normalize_answer_verdict(result.answer_verdict) \in {"correct", "incorrect"}
  THEN _normalize_answer_verdict(result.answer_verdict)
  ELSE _derive_answer_verdict(report)

\* The verdict stored: the derived one, or the prior signal when the derived
\* one is unknown.
PolicyVerdict(result, report) ==
  LET derived == _derive_answer_verdict(report)
      existing_verdict == _normalize_answer_verdict(result.answer_verdict)
  IN IF derived = "unknown" /\ existing_verdict \in {"correct", "incorrect"}
     THEN existing_verdict ELSE derived

UsedExistingSignal(result, report) ==
  /\ _derive_answer_verdict(report) = "unknown"
  /\ _normalize_answer_verdict(result.answer_verdict) \in {"correct", "incorrect"}

\* The target score that ignores the score the result had.
VerdictTargetScore_target_only(result, report, verdict) ==
  LET logic_quality == _estimate_logic_quality(result, report)
  IN IF verdict = "correct"
     THEN round2(_clamp(70000 + 3 * logic_quality, 70000, 100000), 10)
     ELSE IF verdict = "incorrect"
     THEN round2(_clamp(7 * logic_quality, 0, 70000), 10)
     ELSE round2(_clamp(result.score_total, 0, 10000), 1)

VerdictTargetScore(result, report, verdict) ==
  LET current_score == result.score_total
      logic_quality == _estimate_logic_quality(result, report)
      correct_target == round2(_clamp(70000 + 3 * logic_quality, 70000, 100000), 10)
      incorrect_target == round2(_clamp(7 * logic_quality, 0, 70000), 10)
  IN IF verdict = "correct"
     THEN IF 7000 <= current_score /\ current_score <= 10000
             /\ current_score > correct_target
          THEN current_score ELSE correct_target
     ELSE IF verdict = "incorrect"
     THEN IF current_score < incorrect_target THEN current_score ELSE incorrect_target
     ELSE round2(_clamp(current_score, 0, 10000), 1)

_apply_answer_verdict_policy(result, report) ==
  LET verdict == PolicyVerdict(result, report)
      target_score == VerdictTargetScore(result, report, verdict)
  IN [result EXCEPT
        !.answer_verdict = verdict,
        !.answer_verdict_reason =
           _stable_verdict_reason(verdict, report, UsedExistingSignal(result, report)),
        !.score_total = target_score,
        !.rubric_scores = _rescale_rubric_to_score(@, target_score, verdict)]

(***************************************************************************)
(* _reconcile_score_from_deductions                                        *)
(***************************************************************************)
_reconcile_score_from_deductions(result) ==
  LET deduction == SeqSum(PointsOf(result.mistakes))
      score_ceiling == _round_to_tenth(_clamp(10000 - deduction, 0, 10000))
      current_score == _round_to_tenth(result.score_total)
  IN IF current_score <= score_ceiling THEN result
     ELSE [result EXCEPT
             !.score_total = score_ceiling,
             !.rubric_scores = ScaleRubric(@, score_ceiling)]

(***************************************************************************)
(* _ensure_mistake_coverage and its helpers                                *)
(***************************************************************************)
SeverityForPoints(points) ==
  IF points >= 1200 THEN "high" ELSE IF points >= 600 THEN "med" ELSE "low"

\* "풀이 중간 구간"
MiddleHint == Text(8, {"solution", "middle", "section"})

_default_step_for_dimension(key, steps, fallback_idx) ==
  LET n == Len(steps)
  IN IF n > 0
     THEN IF key = "final" THEN StepId(n)
          ELSE IF key \in {"conditions", "modeling"} THEN StepId(1)
          ELSE IF key = "calculation" THEN StepId(Min(n - 1, Max(1, n \div 2)) + 1)
          ELSE StepId(Min(n - 1, Max(0, n \div 2)) + 1)
     ELSE StepId(Min(Max(fallback_idx, 1), 6))

_default_location_for_dimension(key) ==
  IF key = "conditions" THEN Text(10, {"kw_first", "line", "conditions"})
  ELSE IF key = "modeling" THEN Text(7, {"kw_third", "modeling", "line"})
  ELSE IF key = "logic" THEN Text(7, {"middle", "expansion", "line"})
  ELSE IF key = "calculation" THEN Text(4, {"calculation", "line"})
  ELSE IF key = "final" THEN FinalLineHint
  ELSE MiddleHint

DimensionType(key) ==
  IF key = "conditions" THEN "CONDITION_MISSED"
  ELSE IF key = "modeling" THEN "DEFINITION_CONFUSION"
  ELSE IF key = "logic" THEN "LOGIC_GAP"
  ELSE IF key = "calculation" THEN "ARITHMETIC_ERROR"
  ELSE "FINAL_FORM_ERROR"

DimensionRule(key) ==
  IF key = "conditions" THEN "RULE_RUBRIC_CONDITIONS"
  ELSE IF key = "modeling" THEN "RULE_RUBRIC_MODELING"
  ELSE IF key = "logic" THEN "RULE_RUBRIC_LOGIC"
  ELSE IF key = "calculation" THEN "RULE_RUBRIC_CALC"
  ELSE "RULE_RUBRIC_FINAL"

\* "<label> 루브릭 점수 부족으로 감점"
DimensionReason(key) ==
  Text(IF key = "calculation" THEN 17 ELSE IF key = "final" THEN 22 ELSE 20,
       {key, "rubric_shortfall"})

_build_rubric_gap_mistakes(result, report, gap) ==
  LET rubric == result.rubric_scores
      deficit(key) == round3(_clamp(2000 - rubric[key], 0, 2000), 1)
      deficits == SelectSeq(RubricKeys, LAMBDA key : deficit(key) > 50)
      deficit_sum == SeqSum([i \in 1..Len(deficits) |-> deficit(deficits[i])])
      points(key) == round2(_clamp(deficit(key) * gap, 0, 2000 * deficit_sum), deficit_sum)
      kept == SelectSeq([i \in 1..Len(deficits) |-> [key |-> deficits[i], idx |-> i]],
                        LAMBDA d : points(d.key) >= 100)
  IN IF deficits = <<>> THEN <<>>
     ELSE [i \in 1..Len(kept) |->
             Mistake(DimensionType(kept[i].key),
                     SeverityForPoints(points(kept[i].key)),
                     points(kept[i].key),
                     _format_provenance_evidence(
                        _default_step_for_dimension(kept[i].key, report.steps, kept[i].idx),
                        DimensionRule(kept[i].key), DimensionReason(kept[i].key), EmptyText),
                     "fix_dimension_" \o kept[i].key,
                     _default_location_for_dimension(kept[i].key))]

\* _allocate_weighted_with_cap(weights, target, cap=2.0) in tenths of a
\* point: target is a whole number of tenths, the cap is 20.  The result
\* gives each index its allocation as a fraction n/d of tenths.
RECURSIVE AllocateRounds(_, _, _, _)
AllocateRounds(weights, remaining, remaining_target, allocations) ==
  IF remaining = {} \/ remaining_target <= 0 THEN allocations
  ELSE LET weight_sum == SeqSum([i \in 1..Len(weights) |->
                                    IF i \in remaining THEN Max(weights[i], 0) ELSE 0])
           saturated == {i \in remaining :
                           remaining_target * Max(weights[i], 0) >= 20 * weight_sum}
       IN IF weight_sum <= 0
          THEN [i \in 1..Len(weights) |->
                  IF i \in remaining
                  THEN [n |-> Min(20 * Cardinality(remaining), remaining_target),
                        d |-> Cardinality(remaining)]
                  ELSE allocations[i]]
          ELSE IF saturated # {}
          THEN AllocateRounds(weights, remaining \ saturated,
                              Max(0, remaining_target - 20 * Cardinality(saturated)),
                              [i \in 1..Len(weights) |->
                                 IF i \in saturated THEN [n |-> 20, d |-> 1]
                                 ELSE allocations[i]])
          ELSE [i \in 1..Len(weights) |->
                  IF i \in remaining
                  THEN [n |-> remaining_target * Max(weights[i], 0), d |-> weight_sum]
                  ELSE allocations[i]]

_allocate_weighted_with_cap(weights, target_units) ==
  AllocateRounds(weights, 1..Len(weights),
                 _clamp(target_units, 0, 20 * Len(weights)),
                 [i \in 1..Len(weights) |-> [n |-> 0, d |-> 1]])

\* Hand out (delta = 1) or take back (delta = -1) single tenths along
\* order, pass after pass, skipping the items at the limit.
RECURSIVE MoveUnits(_, _, _, _, _, _)
MoveUnits(point_units, order, k, left, moved, delta) ==
  IF left <= 0 THEN point_units
  ELSE IF k > Len(order)
       THEN IF moved THEN MoveUnits(point_units, order, 1, left, FALSE, delta)
            ELSE point_units
  ELSE IF (delta = 1 /\ point_units[order[k]] >= 20)
            \/ (delta = -1 /\ point_units[order[k]] <= 0)
       THEN MoveUnits(point_units, order, k + 1, left, moved, delta)
  ELSE MoveUnits([point_units EXCEPT ![order[k]] = @ + delta], order, k + 1,
                 left - 1, TRUE, delta)

\* The indices 1..n in the order a strict total order Before gives them.
OrderBy(n, Before(_, _)) ==
  [p \in 1..n |-> CHOOSE i \in 1..n :
                     Cardinality({j \in 1..n : Before(j, i)}) = p - 1]

BalanceFiller(reason, fix, points, severity) ==
  Mistake("LOGIC_GAP", severity, points,
          _format_provenance_evidence("s0", "RULE_SCORE_BALANCE", reason, EmptyText),
          fix, MiddleHint)

\* The padding loop: entries of 1.0 until 2.0 each can carry the target.
RECURSIVE PadToTarget(_, _)
PadToTarget(normalized, target_units) ==
  IF Len(normalized) * 20 < target_units /\ Len(normalized) < MaxMistakeCount
  THEN PadToTarget(Append(normalized,
                          BalanceFiller(Text(19, {"normalize_distribution"}),
                                        "fix_check_key_lines", 1000, "high")),
                   target_units)
  ELSE normalized

\* The tenths of each allocation, rounded down.
FloorUnits(raw_alloc) ==
  [i \in 1..Len(raw_alloc) |-> Max(0, raw_alloc[i].n \div raw_alloc[i].d)]

\* The order in which missing tenths are handed out: key (remainder,
\* weight, -idx), descending.
DeficitOrder(weights, raw_alloc, floor_units) ==
  LET rem(i) == raw_alloc[i].n - floor_units[i] * raw_alloc[i].d
      up(i, j) ==
        \/ rem(i) * raw_alloc[j].d > rem(j) * raw_alloc[i].d
        \/ /\ rem(i) * raw_alloc[j].d = rem(j) * raw_alloc[i].d
           /\ (weights[i] > weights[j] \/ (weights[i] = weights[j] /\ i < j))
  IN OrderBy(Len(weights), up)

\* The order in which surplus tenths are taken back: key (point_units,
\* weight, idx), ascending.
OverflowOrder(weights, floor_units) ==
  LET down(i, j) ==
        \/ floor_units[i] < floor_units[j]
        \/ /\ floor_units[i] = floor_units[j]
           /\ (weights[i] < weights[j] \/ (weights[i] = weights[j] /\ i < j))
  IN OrderBy(Len(weights), down)

PointUnits(weights, raw_alloc, floor_units, deficit_units) ==
  IF deficit_units > 0
  THEN MoveUnits(floor_units, DeficitOrder(weights, raw_alloc, floor_units), 1,
                 deficit_units, FALSE, 1)
  ELSE IF deficit_units < 0
  THEN MoveUnits(floor_units, OverflowOrder(weights, floor_units), 1,
                 -deficit_units, FALSE, -1)
  ELSE floor_units

\* The entry kept at its old price.
Repriced_unpriced(item, points) == item

Repriced(item, points) ==
  [item EXCEPT !.points_deducted = points,
               !.severity = _higher_severity(@, SeverityForPoints(points))]

NormalizedOutput(normalized, point_units) ==
  LET priced == [i \in 1..Len(normalized) |->
                   Repriced(normalized[i],
                            _round_to_tenth(_clamp(point_units[i] * 100, 0, 2000)))]
  IN SelectSeq(priced, LAMBDA item : item.points_deducted >= 100)

MinimumEntry(fallback_points) ==
  BalanceFiller(Text(22, {"normalize_minimum"}), "fix_check_key_logic", fallback_points,
                IF fallback_points >= 1200 THEN "high" ELSE "med")

OutputOrMinimum(output, target_units) ==
  IF output = <<>>
  THEN <<MinimumEntry(_round_to_tenth(Min(2000, target_units * 100)))>>
  ELSE Prefix(output, MaxMistakeCount)

NormalizeFloored(normalized, weights, raw_alloc, floor_units, target_units) ==
  OutputOrMinimum(
    NormalizedOutput(normalized,
                     PointUnits(weights, raw_alloc, floor_units,
                                target_units - SeqSum(floor_units))),
    target_units)

NormalizeAllocated(normalized, weights, raw_alloc, target_units) ==
  NormalizeFloored(normalized, weights, raw_alloc, FloorUnits(raw_alloc), target_units)

NormalizeWeighted(normalized, weights, target_units) ==
  NormalizeAllocated(normalized, weights,
                     _allocate_weighted_with_cap(weights, target_units), target_units)

NormalizePadded(normalized, target_units) ==
  NormalizeWeighted(normalized,
                    [i \in 1..Len(normalized) |-> Max(normalized[i].points_deducted, 100)],
                    target_units)

NormalizeToUnits(mistakes, target_units) ==
  IF mistakes = <<>> \/ target_units <= 0 THEN <<>>
  ELSE NormalizePadded(PadToTarget(mistakes, target_units), target_units)

_normalize_deductions_to_target(mistakes, target_deduction) ==
  NormalizeToUnits(mistakes, _round_to_tenth(_clamp(target_deduction, 0, 10000)) \div 100)

SortByPointsDesc(mistakes) == SortDesc(mistakes, PointsOf(mistakes))

HasFailedFinding(report) == AnyFailed(report.findings)

\* No path is skipped.
SkipsSynthetic_never(result, report) == FALSE

\* The verified-correct path: no synthetic deduction is generated.
SkipsSynthetic(result, report) ==
  _normalize_answer_verdict(result.answer_verdict) = "correct" /\ ~HasFailedFinding(report)

\* The balancing entry for the gap the rubric entries left.
BalanceEntry(report, gap) ==
  Mistake("LOGIC_GAP", IF gap < 1000 THEN "med" ELSE "high",
          round2(_clamp(gap, 100, 2000), 1),
          _format_provenance_evidence(OrStr(_infer_step_id(MiddleHint, report.steps), "s1"),
                                      "RULE_SCORE_BALANCE", Text(22, {"balance_gap"}),
                                      EmptyText),
          "fix_recheck_logic_calc_final", MiddleHint)

DeductionGap(mistakes, target_deduction) ==
  round2(target_deduction - round2(SeqSum(PointsOf(mistakes)), 1), 1)

WithBalanceEntry(report, extended, gap) ==
  IF gap > 100 THEN Append(extended, BalanceEntry(report, gap)) ELSE extended

WithGapEntries(result, report, mistakes, target_deduction, gap) ==
  IF gap > 100
  THEN WithBalanceEntry(report, mistakes \o _build_rubric_gap_mistakes(result, report, gap),
                        DeductionGap(mistakes \o _build_rubric_gap_mistakes(result, report, gap),
                                     target_deduction))
  ELSE mistakes

\* The mistakes before redistribution: rubric gap entries and one balancing
\* entry are added while the gap exceeds 0.1.
CoverageCandidates(result, report, mistakes, target_deduction) ==
  WithGapEntries(result, report, mistakes, target_deduction,
                 DeductionGap(mistakes, target_deduction))

\* The verified-correct path: the positive deductions are kept as they are
\* and the score is only capped by them.
KeepWithoutSynthetic(result, sorted) ==
  [result EXCEPT
     !.mistakes = sorted,
     !.score_total =
        IF sorted # <<>>
             /\ _round_to_tenth(@) > _round_to_tenth(
                   _clamp(10000 - _round_to_tenth(SeqSum(PointsOf(sorted))), 0, 10000))
        THEN _round_to_tenth(
               _clamp(10000 - _round_to_tenth(SeqSum(PointsOf(sorted))), 0, 10000))
        ELSE @]

Balanced(result, balanced) ==
  [result EXCEPT
     !.mistakes = balanced,
     !.score_total = _round_to_tenth(10000 - _round_to_tenth(SeqSum(PointsOf(balanced))))]

BalanceToTarget(result, report, mistakes, target_deduction) ==
  Balanced(result,
           Prefix(SortByPointsDesc(_normalize_deductions_to_target(
                     CoverageCandidates(result, report, mistakes, target_deduction),
                     target_deduction)), MaxMistakeCount))

PositiveDeductions(mistakes) == SelectSeq(mistakes, LAMBDA m : m.points_deducted > 40)

_ensure_mistake_coverage(result, report) ==
  IF SkipsSynthetic(result, report)
  THEN KeepWithoutSynthetic(result,
                            Prefix(SortByPointsDesc(PositiveDeductions(result.mistakes)),
                                   MaxMistakeCount))
  ELSE BalanceToTarget(result, report, PositiveDeductions(result.mistakes),
                       _round_to_tenth(10000 - _round_to_tenth(
                                                 _clamp(result.score_total, 0, 10000))))

(***************************************************************************)
(* _merge_consensus_results                                                *)
(***************************************************************************)
\* The mistake types in the order Python compares their names.
MistakeTypes ==
  <<"ALGEBRA_ERROR", "ARITHMETIC_ERROR", "CASE_MISS", "CONDITION_MISSED",
    "DEFINITION_CONFUSION", "FINAL_FORM_ERROR", "GRAPH_MISREAD", "LOGIC_GAP",
    "SIGN_ERROR", "UNIT_ERROR">>

TypeRank(type) ==
  IF \E i \in 1..Len(MistakeTypes) : MistakeTypes[i] = type
  THEN CHOOSE i \in 1..Len(MistakeTypes) : MistakeTypes[i] = type
  ELSE 0

\* The checklist sentences a model run may carry, in string order.
ChecklistTexts == <<"check_arithmetic", "check_conditions", "check_final", "check_signs">>

TextRank(text) ==
  IF \E i \in 1..Len(ChecklistTexts) : ChecklistTexts[i] = text
  THEN CHOOSE i \in 1..Len(ChecklistTexts) : ChecklistTexts[i] = text
  ELSE 0

SortAsc(s) == LET d == SortDesc(s, s) IN [i \in 1..Len(d) |-> d[Len(d) + 1 - i]]

Median_mean(values) == [n |-> SeqSum(values), d |-> Len(values)]

\* statistics.median as the fraction n/d.
Median(values) ==
  LET sorted == SortAsc(values)
      n == Len(values)
  IN IF n % 2 = 1 THEN [n |-> sorted[(n + 1) \div 2], d |-> 1]
     ELSE [n |-> sorted[n \div 2] + sorted[n \div 2 + 1], d |-> 2]

SeqMax(values) == CHOOSE v \in {values[i] : i \in 1..Len(values)} :
                     \A i \in 1..Len(values) : values[i] <= v
SeqMin(values) == CHOOSE v \in {values[i] : i \in 1..Len(values)} :
                     \A i \in 1..Len(values) : values[i] >= v

RECURSIVE Flatten(_)
Flatten(seqs) == IF seqs = <<>> THEN <<>> ELSE Head(seqs) \o Flatten(Tail(seqs))

\* Keeps the first occurrence of every value, in order.
Distinct(s) == SelectSeq([i \in 1..Len(s) |-> [v |-> s[i], first |-> \A j \in 1..(i - 1) : s[j] # s[i]]],
                         LAMBDA e : e.first)

Values(s) == [i \in 1..Len(s) |-> s[i].v]

_consensus_mistake_key(mistake) ==
  <<mistake.type, _clean_text(mistake.location_hint, MiddleHint, 80)>>

ConsensusNote(runs_used, runs_requested, agreement) ==
  "consensus_runs=" \o ToString(runs_used) \o "/" \o ToString(runs_requested)
     \o ", agreement=" \o Format2(agreement)

ConsensusMeta(runs_requested, runs_used, agreement, score_spread) ==
  [runs_requested |-> runs_requested, runs_used |-> runs_used,
   agreement |-> agreement, score_spread |-> score_spread]

MergedMistakes(validated_runs) ==
  LET all == Flatten([r \in 1..Len(validated_runs) |-> validated_runs[r].mistakes])
      keys == Values(Distinct([i \in 1..Len(all) |-> _consensus_mistake_key(all[i])]))
      vote_threshold == Max(1, (Len(validated_runs) + 1) \div 2)
      bucket(key) == SelectSeq(all, LAMBDA m : _consensus_mistake_key(m) = key)
      voted == SelectSeq(keys, LAMBDA key : Len(bucket(key)) >= vote_threshold)
      representative(key) ==
        LET b == bucket(key)
            top == SortDesc(b, [i \in 1..Len(b) |-> PointsSeverityKey(b[i])])[1]
        IN [top EXCEPT !.location_hint = _clean_text(@, key[2], 120)]
      merged == [i \in 1..Len(voted) |-> representative(voted[i])]
  IN [mistakes |-> SortDesc(merged, [i \in 1..Len(merged) |->
                              merged[i].points_deducted * 16 + TypeRank(merged[i].type)]),
      buckets |-> Len(keys)]

MergedChecklist_anchor(validated_runs, chosen) == chosen.next_checklist

MergedChecklist(validated_runs, chosen) ==
  LET all == Flatten([r \in 1..Len(validated_runs) |-> validated_runs[r].next_checklist])
      texts == Values(Distinct(all))
      votes(text) == Len(SelectSeq(all, LAMBDA t : t = text))
      \* sorted by (-votes, text)
      ranked == SortDesc(texts, [i \in 1..Len(texts) |->
                           votes(texts[i]) * 16 + (15 - TextRank(texts[i]))])
  IN IF texts = <<>> THEN chosen.next_checklist ELSE Prefix(ranked, MaxChecklist)

_merge_consensus_results(validated_runs, runs_requested) ==
  LET n == Len(validated_runs)
      scores == [i \in 1..n |-> validated_runs[i].score_total]
      med == Median(scores)
      score_median == round2(med.n, med.d)
      score_spread == SeqMax(scores) - SeqMin(scores)
      rubric_median(key) == Median([i \in 1..n |-> validated_runs[i].rubric_scores[key]])
      rubric_merged == [key \in DOMAIN validated_runs[1].rubric_scores |->
                          round2(_clamp(rubric_median(key).n, 0, 2000 * rubric_median(key).d),
                                 rubric_median(key).d)]
      mm == MergedMistakes(validated_runs)
      \* (score_agreement + mistake_agreement) / 2 as one fraction
      agreement ==
        IF mm.buckets = 0
        THEN round2(_clamp(6000 - Min(3000, score_spread), 0, 6000), 6)
        ELSE round2(_clamp((3000 - Min(3000, score_spread)) * mm.buckets
                              + 3000 * Len(mm.mistakes), 0, 6000 * mm.buckets),
                    6 * mm.buckets)
      distance(i) == Abs(med.d * scores[i] - med.n)
      chosen == validated_runs[CHOOSE i \in 1..n :
                                 /\ \A j \in 1..n : distance(i) <= distance(j)
                                 /\ \A j \in 1..(i - 1) : distance(j) > distance(i)]
      conf_sum == SeqSum([i \in 1..n |-> validated_runs[i].confidence])
      missing == Values(Distinct(Flatten([i \in 1..n |-> validated_runs[i].missing_info])))
      note == ConsensusNote(n, runs_requested, agreement)
  IN IF n = 1
     THEN [result |-> validated_runs[1],
           meta |-> ConsensusMeta(runs_requested, 1, 1000, 0)]
     ELSE [result |->
             [chosen EXCEPT
                !.score_total = score_median,
                !.rubric_scores = rubric_merged,
                !.mistakes = Prefix(mm.mistakes, MaxMistakeCount),
                !.next_checklist = MergedChecklist(validated_runs, chosen),
                !.confidence = round2(_clamp(4 * conf_sum - n * (1000 - agreement),
                                             0, 4000 * n), 4 * n),
                !.missing_info = Prefix(IF InSeq(note, missing) THEN missing
                                        ELSE Append(missing, note), MaxMissingInfo)],
           meta |-> ConsensusMeta(runs_requested, n, agreement, score_spread)]

(***************************************************************************)
(* _apply_simple_equation_consistency                                      *)
(***************************************************************************)
\* The :g rendering of a value given in thousandths.
FormatG(v) ==
  LET a == Abs(v)
      frac == a % 1000
      digits == IF frac = 0 THEN ""
                ELSE "." \o ToString(frac \div 100)
                       \o (IF frac % 100 = 0 THEN ""
                           ELSE ToString((frac % 100) \div 10)
                                  \o (IF frac % 10 = 0 THEN "" ELSE ToString(frac % 10)))
  IN (IF v < 0 THEN "-" ELSE "") \o ToString(a \div 1000) \o digits

FinalAdjustedTypes == {"FINAL_FORM_ERROR", "ARITHMETIC_ERROR"}

_apply_correct_answer_adjustment(result, expected, given) ==
  LET evidence == Untagged(Text(38 + Len(FormatG(given)),
                                {"final_matches", "x=" \o FormatG(given)}))
      adjust(item) ==
        IF item.type \in FinalAdjustedTypes
        THEN [item EXCEPT
                !.severity = "low",
                !.points_deducted = round2(_clamp(Min(OrDefault(@, 200), 200), 0, 2000), 1),
                !.evidence = evidence]
        ELSE item
      mistakes == [i \in 1..Len(result.mistakes) |-> adjust(result.mistakes[i])]
      rubric == [result.rubric_scores EXCEPT
                   !["final"] = 2000,
                   !["logic"] = Max(OrDefault(@, 1800), 1800)]
      target == Max(RubricSum(rubric), IF mistakes = <<>> THEN 9500 ELSE 8800)
  IN [result EXCEPT
        !.mistakes = mistakes,
        !.rubric_scores = rubric,
        !.score_total = round2(_clamp(target, 0, 10000), 1),
        !.confidence = round2(_clamp(Max(OrDefault(@, 750), 820), 0, 1000), 1),
        !.answer_verdict = "correct",
        !.answer_verdict_reason = "correct: simple check x=" \o FormatG(given)
                                     \o " (expected x=" \o FormatG(expected) \o ")",
        !.next_checklist =
           IF @ # <<>>
           THEN Prefix([@ EXCEPT ![1] = "answer confirmed: x=" \o FormatG(expected)],
                       MaxChecklist)
           ELSE @]

_apply_wrong_answer_adjustment(result, expected, given) ==
  LET evidence == Untagged(Text(27 + Len(FormatG(given)) + Len(FormatG(expected)),
                                {"final_differs", "x=" \o FormatG(given),
                                 "x=" \o FormatG(expected)}))
      finals == {i \in 1..Len(result.mistakes) : result.mistakes[i].type = "FINAL_FORM_ERROR"}
      first == CHOOSE i \in finals : \A j \in finals : i <= j
      mistakes ==
        IF finals = {}
        THEN <<Mistake("FINAL_FORM_ERROR", "high", 2000, evidence, "fix_resubstitute",
                       FinalLineHint)>> \o result.mistakes
        ELSE [result.mistakes EXCEPT
                ![first] = [@ EXCEPT
                              !.severity = "high",
                              !.points_deducted =
                                 round2(_clamp(Max(OrDefault(@, 1500), 1500), 0, 2000), 1),
                              !.evidence = evidence,
                              !.fix_instruction = "fix_resubstitute"]]
      old == result.rubric_scores
      rubric == [key \in DOMAIN old |->
                   IF key = "final" THEN Min(OrDefault(old[key], 400), 400)
                   ELSE IF key = "logic" THEN Min(OrDefault(old[key], 1000), 1000)
                   ELSE _clamp(OrDefault(old[key], 1200), 0, 2000)]
      raw_sum == RubricSum(rubric)
      target == Min(Min(OrDefault(result.score_total, raw_sum), raw_sum), 5000)
  IN [result EXCEPT
        !.mistakes = Prefix(mistakes, MaxMistakeCount),
        !.rubric_scores = rubric,
        !.score_total = round2(_clamp(target, 0, 10000), 1),
        !.confidence = round2(_clamp(Min(OrDefault(@, 600), 580), 0, 1000), 1),
        !.answer_verdict = "incorrect",
        !.answer_verdict_reason = "incorrect: simple check x=" \o FormatG(given)
                                     \o ", expected x=" \o FormatG(expected),
        !.next_checklist = <<"substitute final answer", "recheck signs",
                             "verify last line">>]

\* expected and given are <<>> when the images are missing or no value is
\* read from them, else <<value>>.
_apply_simple_equation_consistency(result, expected, given) ==
  IF expected = <<>> \/ given = <<>> THEN result
  ELSE IF Abs(expected[1] - given[1]) <= XTolerance
  THEN _apply_correct_answer_adjustment(result, expected[1], given[1])
  ELSE _apply_wrong_answer_adjustment(result, expected[1], given[1])

(***************************************************************************)
(* The verification report as _build_verification_report assembles it.     *)
(***************************************************************************)
ConsensusRuns == 3

Rubric(conditions, modeling, logic, calculation, final) ==
  ("conditions" :> conditions) @@ ("modeling" :> modeling) @@ ("logic" :> logic)
     @@ ("calculation" :> calculation) @@ ("final" :> final)

FlatRubric(value) == Rubric(value, value, value, value, value)

Result(score_total, rubric_scores, mistakes, confidence, answer_verdict, missing_info, next_checklist) ==
  [score_total |-> score_total, rubric_scores |-> rubric_scores, mistakes |-> mistakes,
   next_checklist |-> next_checklist, confidence |-> confidence,
   missing_info |-> missing_info, answer_verdict |-> answer_verdict,
   answer_verdict_reason |-> "verdict reason of the run"]

Report(steps, findings, expected_x, observed_x, confidence, requires_review) ==
  [steps |-> steps, findings |-> findings, expected_x |-> expected_x,
   observed_x |-> observed_x, confidence |-> confidence,
   requires_review |-> requires_review]

\* The text of the k-th extracted step.
StepText(k) == Text(7, {"x", "eq", ToString(k)})

TransformFinding(k, passed) ==
  IF passed
  THEN Finding(StepId(k), "RULE_EQUIV_TRANSFORM", TRUE, Text(15, {"transform", "equivalent"}),
               EmptyText)
  ELSE Finding(StepId(k), "RULE_EQUIV_TRANSFORM", FALSE,
               Text(25, {"transform", "solutions", "differ"}),
               Text(14, {StepId(k - 1), StepId(k), "x=3", "x=5"}))

\* outcome: "pass", "fail" (with a counterexample) or "unreadable" (no
\* final x value was found, so no counterexample).
FinalFinding(step_id, outcome) ==
  IF outcome = "pass"
  THEN Finding(step_id, "RULE_FINAL_SUBSTITUTION", TRUE, Text(23, {"final", "holds"}),
               EmptyText)
  ELSE IF outcome = "fail"
  THEN Finding(step_id, "RULE_FINAL_SUBSTITUTION", FALSE, Text(24, {"final", "fails"}),
               Text(17, {"x=5", "expected", "x=3"}))
  ELSE Finding(step_id, "RULE_FINAL_SUBSTITUTION", FALSE, Text(32, {"final", "unreadable"}),
               EmptyText)

\* confidence and requires_review, from the counts the builder has at its end.
ReportConfidence(step_count, parsed_count, findings, has_parsed_expected, expected_x, observed_x) ==
  LET steps_for_ratio == Max(1, step_count)
      passed == Len(SelectSeq(findings, LAMBDA f : f.passed))
      total == Len(findings)
      \* 0.3 * pass_ratio as pr.n / pr.d thousandths
      pr == IF total > 0 THEN [n |-> 300 * passed, d |-> total] ELSE [n |-> 165, d |-> 1]
      adjust == (IF ~has_parsed_expected THEN -80 ELSE 0)
                  + (IF ~has_parsed_expected /\ expected_x # <<>> THEN 40 ELSE 0)
                  + (IF observed_x = <<>> THEN -100 ELSE 0)
      num == ((350 + adjust) * steps_for_ratio + 350 * parsed_count) * pr.d
                + pr.n * steps_for_ratio
      den == steps_for_ratio * pr.d
  IN round2(_clamp(num, 0, 1000 * den), den)

RequiresReview(step_count, parsed_count, expected_x, observed_x) ==
  /\ 100 * parsed_count < 34 * Max(1, step_count)
  /\ expected_x # <<>>
  /\ observed_x = <<>>

\* A report over step_count steps, all of them parsed: one transform finding
\* per step after the first (the last one failing when last_fails), then the
\* final-substitution finding of the given outcome ("none" for no finding).
BuiltReport(step_count, last_fails, outcome) ==
  LET steps == [k \in 1..step_count |-> StepText(k)]
      transforms == [k \in 1..(step_count - 1) |->
                       TransformFinding(k + 1, ~(last_fails /\ k = step_count - 1))]
      last_step == IF step_count > 0 THEN StepId(step_count) ELSE "s0"
      findings == IF outcome = "none" THEN transforms
                  ELSE Append(transforms, FinalFinding(last_step, outcome))
      expected_x == IF outcome = "none" THEN <<>> ELSE <<3000>>
      observed_x == IF outcome = "pass" THEN <<3000>>
                    ELSE IF outcome = "fail" THEN <<5000>>
                    ELSE IF outcome = "none" /\ step_count > 0 THEN <<3000>>
                    ELSE <<>>
  IN Report(steps, findings, expected_x, observed_x,
            ReportConfidence(step_count, step_count, findings, step_count > 0,
                             expected_x, observed_x),
            RequiresReview(step_count, step_count, expected_x, observed_x))

FinalOutcomes == {"none", "pass", "fail", "unreadable"}

BuiltReports ==
  {BuiltReport(n, lf, o) : n \in 1..MaxFindings, lf \in BOOLEAN, o \in FinalOutcomes}
     \cup {BuiltReport(0, FALSE, o) : o \in {"none", "unreadable"}}

SeqsUpTo(pool, n) == UNION {[1..k -> pool] : k \in 0..n}

(***************************************************************************)
(* Linear equations a*x + b = 0 and the report _build_verification_report  *)
(* computes from what OCR extracted.  Coefficients and values are in       *)
(* thousandths; the 1e-9 thresholds of the source are exact zero tests.    *)
(***************************************************************************)
\* Expression trees as ast.parse delivers them.
Num(value) == [kind |-> "num", value |-> value]
X == [kind |-> "x"]
Neg(operand) == [kind |-> "neg", operand |-> operand]
BinOp(op, left, right) == [kind |-> op, left |-> left, right |-> right]
\* A side _parse_linear_expression rejects before evaluation (a character
\* outside _ALLOWED_EXPR_CHARS, or a syntax error).
Rejected == [kind |-> "rejected"]

NoExpression == [kind |-> "none"]
LinearExpression(a, b) == [kind |-> "linear", a |-> a, b |-> b]

\* n/d for either sign of d; the sample expressions divide exactly.
Quotient(n, d) == IF d < 0 THEN (0 - n) \div (0 - d) ELSE n \div d

LinearProduct(left, right) ==
  IF left.a = 0 /\ right.a = 0 THEN LinearExpression(0, Quotient(left.b * right.b, 1000))
  ELSE IF left.a = 0
  THEN LinearExpression(Quotient(right.a * left.b, 1000), Quotient(right.b * left.b, 1000))
  ELSE IF right.a = 0
  THEN LinearExpression(Quotient(left.a * right.b, 1000), Quotient(left.b * right.b, 1000))
  ELSE NoExpression

LinearQuotient(left, right) ==
  IF right.a # 0 \/ right.b = 0 THEN NoExpression
  ELSE LinearExpression(Quotient(left.a * 1000, right.b), Quotient(left.b * 1000, right.b))

LinearBinOp(op, left, right) ==
  IF left.kind = "none" \/ right.kind = "none" THEN NoExpression
  ELSE IF op = "add" THEN LinearExpression(left.a + right.a, left.b + right.b)
  ELSE IF op = "sub" THEN LinearExpression(left.a - right.a, left.b - right.b)
  ELSE IF op = "mul" THEN LinearProduct(left, right)
  ELSE IF op = "div" THEN LinearQuotient(left, right)
  ELSE NoExpression

LinearNegation(operand) ==
  IF operand.kind = "none" THEN NoExpression
  ELSE LinearExpression(0 - operand.a, 0 - operand.b)

RECURSIVE _eval_linear_node(_)
_eval_linear_node(node) ==
  IF node.kind = "num" THEN LinearExpression(0, node.value)
  ELSE IF node.kind = "x" THEN LinearExpression(1000, 0)
  ELSE IF node.kind = "neg" THEN LinearNegation(_eval_linear_node(node.operand))
  ELSE IF node.kind \in {"add", "sub", "mul", "div", "pow"}
  THEN LinearBinOp(node.kind, _eval_linear_node(node.left), _eval_linear_node(node.right))
  ELSE NoExpression

_parse_linear_expression(side) ==
  IF side.kind = "rejected" THEN NoExpression ELSE _eval_linear_node(side)

\* The text of an equation with the trees of its two sides.
EquationText(text, left, right) == [text |-> text, left |-> left, right |-> right]

NoEquation == [kind |-> "none"]
LinearEquation(a, b, raw) == [kind |-> "equation", a |-> a, b |-> b, raw |-> raw]

SidesDifference(left, right, raw) ==
  IF left.kind = "none" \/ right.kind = "none" THEN NoEquation
  ELSE LinearEquation(left.a - right.a, left.b - right.b, raw)

_parse_linear_equation(equation_text) ==
  SidesDifference(_parse_linear_expression(equation_text.left),
                  _parse_linear_expression(equation_text.right), equation_text.text)

\* <<mode, value>>; value is the root -b/a in thousandths, <<>> for None.
_solve_linear_equation(equation) ==
  IF equation.a = 0
  THEN IF equation.b = 0 THEN <<"identity", <<>>>> ELSE <<"inconsistent", <<>>>>
  ELSE <<"single", <<Quotient((0 - equation.b) * 1000, equation.a)>>>>

RootTolerance == 50

SolutionsEquivalent_same_mode(first, second) == first[1] = second[1]

SolutionsEquivalent(first, second) ==
  IF first[1] # second[1] THEN FALSE
  ELSE IF first[1] = "single" /\ first[2] # <<>> /\ second[2] # <<>>
  THEN Abs(first[2][1] - second[2][1]) <= RootTolerance
  ELSE TRUE

_equations_equivalent(first, second) ==
  SolutionsEquivalent(_solve_linear_equation(first), _solve_linear_equation(second))

SolutionText(solution) ==
  IF solution[1] = "single" /\ solution[2] # <<>> THEN "x=" \o FormatG(solution[2][1])
  ELSE IF solution[1] = "identity" THEN "always_true"
  ELSE "contradiction"

_equation_solution_text(equation) == SolutionText(_solve_linear_equation(equation))

\* The length of the solved form: "x=" and the number, or the fixed phrase.
SolutionTextLen(solution) ==
  IF solution[1] = "single" /\ solution[2] # <<>> THEN 2 + Len(FormatG(solution[2][1]))
  ELSE IF solution[1] = "identity" THEN 4
  ELSE 2

SolvedFormLen(equation) == SolutionTextLen(_solve_linear_equation(equation))

SingleValue(solution) == IF solution[1] = "single" THEN solution[2] ELSE <<>>

_extract_solution_value_from_equation(equation) ==
  IF equation.kind = "none" THEN <<>> ELSE SingleValue(_solve_linear_equation(equation))

\* What OCR extracted from the two images: the equations of the solution
\* steps in order, the problem's equation (<<>> without one), the root
\* _solve_simple_x reads from the problem text, and the value
\* _extract_last_x_value_from_steps reads from the solution.
Reading(steps, problem, expected_x_simple, observed_x) ==
  [steps |-> steps, problem |-> problem, expected_x_simple |-> expected_x_simple,
   observed_x |-> observed_x]

NoReading == Reading(<<>>, <<>>, <<>>, <<>>)

\* The indexes of the steps whose equation parses, in order.
ParsedStepIds(steps) ==
  SelectSeq([k \in 1..Len(steps) |-> k],
            LAMBDA k : _parse_linear_equation(steps[k]).kind # "none")

ParsedExpected(reading, parsed_ids) ==
  LET from_problem == IF reading.problem = <<>> THEN NoEquation
                      ELSE _parse_linear_equation(reading.problem[1])
  IN IF from_problem.kind = "none" /\ parsed_ids # <<>>
     THEN _parse_linear_equation(reading.steps[parsed_ids[1]])
     ELSE from_problem

EquivTransformFinding(prev_id, step_id, prev_eq, eq) ==
  IF _equations_equivalent(prev_eq, eq)
  THEN Finding(StepId(step_id), "RULE_EQUIV_TRANSFORM", TRUE,
               Text(15, {"transform", "equivalent"}), EmptyText)
  ELSE Finding(StepId(step_id), "RULE_EQUIV_TRANSFORM", FALSE,
               Text(25, {"transform", "solutions", "differ"}),
               Text(Len(StepId(prev_id)) + SolvedFormLen(prev_eq) + Len(StepId(step_id))
                      + SolvedFormLen(eq) + 4,
                    {StepId(prev_id), _equation_solution_text(prev_eq),
                     StepId(step_id), _equation_solution_text(eq)}))

StepChainFindings(steps, parsed_ids) ==
  [idx \in 1..(Len(parsed_ids) - 1) |->
     EquivTransformFinding(parsed_ids[idx], parsed_ids[idx + 1],
                           _parse_linear_equation(steps[parsed_ids[idx]]),
                           _parse_linear_equation(steps[parsed_ids[idx + 1]]))]

\* abs(a * observed_x + b) in thousandths.
Residual(equation, observed_x) == Abs(Quotient(equation.a * observed_x, 1000) + equation.b)

ResidualTolerance == 50

FinalSubstitutionFindings(step_id, parsed_expected, expected_x_value, observed_x) ==
  IF parsed_expected.kind # "none" /\ observed_x # <<>>
  THEN IF Residual(parsed_expected, observed_x[1]) <= ResidualTolerance
       THEN <<Finding(step_id, "RULE_FINAL_SUBSTITUTION", TRUE,
                      Text(23, {"final", "holds"}), EmptyText)>>
       ELSE <<Finding(step_id, "RULE_FINAL_SUBSTITUTION", FALSE,
                      Text(24, {"final", "fails"}),
                      Text(Len(FormatG(observed_x[1])) + SolvedFormLen(parsed_expected) + 13,
                           {"x=" \o FormatG(observed_x[1]), "expected",
                            _equation_solution_text(parsed_expected)}))>>
  ELSE IF expected_x_value # <<>> /\ observed_x # <<>>
  THEN IF Abs(expected_x_value[1] - observed_x[1]) <= ResidualTolerance
       THEN <<Finding(step_id, "RULE_FINAL_SUBSTITUTION", TRUE,
                      Text(19, {"final", "matches"}), EmptyText)>>
       ELSE <<Finding(step_id, "RULE_FINAL_SUBSTITUTION", FALSE,
                      Text(23, {"final", "mismatch"}),
                      Text(Len(FormatG(observed_x[1])) + Len(FormatG(expected_x_value[1]))
                             + 15,
                           {"x=" \o FormatG(observed_x[1]), "expected",
                            "x=" \o FormatG(expected_x_value[1])}))>>
  ELSE IF expected_x_value # <<>> /\ observed_x = <<>>
  THEN <<Finding(step_id, "RULE_FINAL_SUBSTITUTION", FALSE,
                 Text(32, {"final", "unreadable"}), EmptyText)>>
  ELSE <<>>

AssembleReport(reading, parsed_ids, parsed_expected, expected_x_value, findings) ==
  Report([k \in 1..Len(reading.steps) |-> reading.steps[k].text], findings,
         expected_x_value, reading.observed_x,
         ReportConfidence(Len(reading.steps), Len(parsed_ids), findings,
                          parsed_expected.kind # "none", expected_x_value,
                          reading.observed_x),
         RequiresReview(Len(reading.steps), Len(parsed_ids), expected_x_value,
                        reading.observed_x))

ExpectedXValue(parsed_expected, expected_x_simple) ==
  IF _extract_solution_value_from_equation(parsed_expected) = <<>> THEN expected_x_simple
  ELSE _extract_solution_value_from_equation(parsed_expected)

LastStepId(steps) == IF steps # <<>> THEN StepId(Len(steps)) ELSE "s0"

CheckedReport(reading, parsed_ids, parsed_expected, expected_x_value) ==
  AssembleReport(reading, parsed_ids, parsed_expected, expected_x_value,
                 StepChainFindings(reading.steps, parsed_ids)
                   \o FinalSubstitutionFindings(LastStepId(reading.steps), parsed_expected,
                                                expected_x_value, reading.observed_x))

ReportOver(reading, parsed_ids, parsed_expected) ==
  CheckedReport(reading, parsed_ids, parsed_expected,
                ExpectedXValue(parsed_expected, reading.expected_x_simple))

_build_verification_report(reading) ==
  ReportOver(reading, ParsedStepIds(reading.steps),
             ParsedExpected(reading, ParsedStepIds(reading.steps)))

\* Equations as OCR delivers them.
XPlus1Is4 == EquationText(Text(5, {"x", "1", "4"}), BinOp("add", X, Num(1000)), Num(4000))
XIs4Minus1 == EquationText(Text(5, {"x", "4", "1"}), X, BinOp("sub", Num(4000), Num(1000)))
XIs5 == EquationText(Text(3, {"x", "5"}), X, Num(5000))
XIs3p04 == EquationText(Text(6, {"x", "3", "04"}), X, Num(3040))
TwoXIs6 == EquationText(Text(4, {"2x", "6"}), BinOp("mul", Num(2000), X), Num(6000))
XOver2Is1p54 ==
  EquationText(Text(8, {"x", "2", "1", "54"}), BinOp("div", X, Num(2000)), Num(1540))
MinusXIsMinus3 == EquationText(Text(5, {"x", "3"}), Neg(X), Neg(Num(3000)))
XMinusXIs0 == EquationText(Text(5, {"x", "0"}), BinOp("sub", X, X), Num(0))
XMinusXIs1 == EquationText(Text(5, {"x", "1"}), BinOp("sub", X, X), Num(1000))
XTimesXIs4 == EquationText(Text(5, {"x", "4"}), BinOp("mul", X, X), Num(4000))
FourOverXIs2 == EquationText(Text(5, {"4", "x", "2"}), BinOp("div", Num(4000), X), Num(2000))
XSquaredIs4 == EquationText(Text(5, {"x", "2", "4"}), Rejected, Num(4000))
\* Equations written with x on the right.
FourIsXPlus1 == EquationText(Text(5, {"x", "1", "4"}), Num(4000), BinOp("add", X, Num(1000)))
ThreeIsX == EquationText(Text(3, {"x", "3"}), Num(3000), X)
FourIsXTimesX == EquationText(Text(5, {"x", "4"}), Num(4000), BinOp("mul", X, X))

RECURSIVE HasX(_)
HasX(node) ==
  IF node.kind = "x" THEN TRUE
  ELSE IF node.kind \in {"num", "rejected", "none"} THEN FALSE
  ELSE IF node.kind = "neg" THEN HasX(node.operand)
  ELSE HasX(node.left) \/ HasX(node.right)

\* _extract_last_x_value_from_steps reads a value from the joined step
\* texts whenever some "=" is followed by a numeric expression.
ValueReadable(steps) ==
  \E k \in 1..Len(steps) : steps[k].right.kind # "rejected" /\ ~HasX(steps[k].right)

\* Sequences without repetition: _equation_candidates_from_lines keeps each
\* equation text once.
DistinctSeqsUpTo(pool, n) ==
  {s \in SeqsUpTo(pool, n) : \A i, j \in 1..Len(s) : i # j => s[i] # s[j]}

StepEquations ==
  {XPlus1Is4, XIs4Minus1, XIs5, XIs3p04, TwoXIs6, XOver2Is1p54, XMinusXIs0, XMinusXIs1,
   XTimesXIs4, FourIsXPlus1}

ProblemEquations ==
  {XPlus1Is4, TwoXIs6, XOver2Is1p54, MinusXIsMinus3, XMinusXIs1, FourOverXIs2}

ObservedValues == {<<>>, <<3000>>, <<3040>>, <<5000>>}

\* _solve_simple_x reads a root only from a problem text; it matters when
\* the problem's equation does not parse.
AnyReadings ==
  {Reading(steps, <<problem>>, <<>>, observed) :
     steps \in DistinctSeqsUpTo(StepEquations, MaxFindings),
     problem \in ProblemEquations, observed \in ObservedValues}
    \cup {Reading(steps, problem, simple, observed) :
            steps \in DistinctSeqsUpTo(StepEquations, MaxFindings),
            problem \in {<<>>, <<XSquaredIs4>>}, simple \in {<<>>, <<3000>>},
            observed \in ObservedValues}

\* No value is observed only when none can be read from the steps.
OcrReadings == {reading \in AnyReadings : reading.observed_x = <<>> => ~ValueReadable(reading.steps)}

\* The readings of the jobs: no text at all, a correct and a wrong chain, a
\* final value near the root of a steep problem, and unreadable images.
JobReadings ==
  {NoReading,
   Reading(<<XPlus1Is4, XIs4Minus1>>, <<XPlus1Is4>>, <<>>, <<3000>>),
   Reading(<<FourIsXPlus1, ThreeIsX>>, <<>>, <<>>, <<>>),
   Reading(<<XPlus1Is4, XIs5>>, <<XPlus1Is4>>, <<>>, <<5000>>),
   Reading(<<XPlus1Is4, XIs5>>, <<XPlus1Is4>>, <<>>, <<3000>>),
   Reading(<<XIs3p04>>, <<TwoXIs6>>, <<>>, <<3040>>),
   Reading(<<FourIsXPlus1>>, <<XPlus1Is4>>, <<>>, <<>>),
   Reading(<<XTimesXIs4>>, <<>>, <<>>, <<3000>>),
   Reading(<<FourIsXTimesX>>, <<XSquaredIs4>>, <<3000>>, <<>>),
   Reading(<<>>, <<XSquaredIs4>>, <<3000>>, <<5000>>)}

(***************************************************************************)
(* Results a model run can deliver once _validate_result accepted it.      *)
(***************************************************************************)
\* Evidence texts: a concrete explanation and a bare restatement.
ConcreteEvidence(topic) == Untagged(Text(34, {topic, "because", "line"}))

\* Ordered as _sort_mistakes leaves them: severity, then points, descending.
RunMistakePool ==
  <<Mistake("FINAL_FORM_ERROR", "high", 1500, ConcreteEvidence("final"), "fix_final",
            FinalLineHint),
    Mistake("ARITHMETIC_ERROR", "med", 500, Untagged(GenericEvidenceB), "fix_arithmetic",
            Text(4, {"calculation", "line"})),
    Mistake("LOGIC_GAP", "low", 250, Evidence("s1", "RULE_EQUIV_TRANSFORM",
                                              Text(5, {"unclear"})),
            "fix_logic", MiddleHint),
    Mistake("SIGN_ERROR", "low", 100, ConcreteEvidence("sign"), "fix_sign",
            Text(9, {"kw_second", "line"}))>>

\* The hint _inject_uncertainty_hint appends when confidence is below 0.45.
LegibilityHint == "legibility_hint"

\* A run with the first count mistakes of the pool.  The score of the
\* larger runs has three decimals: the normalizer clamps score_total but
\* rounds it only when it moves it.
RunResult(count) ==
  LET score == IF count = 0 THEN 10000 ELSE IF count = 1 THEN 8500 ELSE 7333
  IN Result(score, FlatRubric(round2(score, 5)), Prefix(RunMistakePool, count),
            IF count = 0 THEN 900 ELSE IF count = 1 THEN 700 ELSE 400,
            IF count = 0 THEN "correct" ELSE IF count = 1 THEN "incorrect" ELSE "unknown",
            IF count >= 2 THEN <<LegibilityHint>> ELSE <<>>,
            IF count = 0 THEN <<"check_final">>
            ELSE <<"check_signs", "check_arithmetic">>)

RunSamples == {RunResult(count) : count \in 0..MaxMistakes}

\* A stored result with as many mistakes as the normalizer lets through,
\* each tagged with a step of its own.
CrowdedResult ==
  Result(8000, FlatRubric(1600),
         [i \in 1..MaxMistakeCount |->
            Mistake("LOGIC_GAP", "low", 100,
                    Evidence(StepId(i), "RULE_EQUIV_TRANSFORM",
                             Text(30, {"reason_label", "line", ToString(i)})),
                    "fix_logic", Text(7, {"line", ToString(i)}))],
         600, "unknown", <<>>, <<"check_signs">>)

\* What the fallback file may hold: any result _validate_result accepts.
FallbackSamples == RunSamples \cup {CrowdedResult}

RunSequences ==
  UNION {[1..n -> RunSamples] : n \in 0..Min(MaxRuns, Max(1, ConsensusRuns))}

\* What OCR reads for the simple-equation check: <<expected, given>>, each
\* <<>> when nothing is read.
SimpleReadings ==
  {<<<<>>, <<>>>>, <<<<3000>>, <<3040>>>>, <<<<3000>>, <<5000>>>>}

(***************************************************************************)
(* The runs of a job, its error code and its rows in the database.         *)
(***************************************************************************)
\* What a requested run delivers: an exception of the transport, a payload
\* _validate_result rejects, or one it accepts.  message_len is the length
\* of str(exc).
TransportError == [kind |-> "transport_error", message_len |-> 7]
InvalidPayload == [kind |-> "invalid", message_len |-> 150]
Payload(result) == [kind |-> "valid", result |-> result]

\* The runs requested, with those that validate in the given order: a
\* failed run is put after the first, or before when there is none.
Delivered(valid, first_failure, other_failure) ==
  IF Len(valid) = 0 THEN <<first_failure, other_failure, first_failure>>
  ELSE IF Len(valid) = 1 THEN <<Payload(valid[1]), first_failure, other_failure>>
  ELSE IF Len(valid) = 2 THEN <<Payload(valid[1]), first_failure, Payload(valid[2])>>
  ELSE [i \in 1..Len(valid) |-> Payload(valid[i])]

RunOutcomes ==
  {Delivered(valid, TransportError, TransportError) : valid \in RunSequences}
    \cup {Delivered(valid, InvalidPayload, TransportError) : valid \in RunSequences}

OfKind(delivered, kind) == SelectSeq(delivered, LAMBDA run : run.kind = kind)

ValidatedRuns_first(delivered) ==
  IF OfKind(delivered, "valid") = <<>> THEN <<>> ELSE <<OfKind(delivered, "valid")[1].result>>

\* The validation loop of process_analysis_job.
ValidatedRuns(delivered) ==
  [i \in 1..Len(OfKind(delivered, "valid")) |-> OfKind(delivered, "valid")[i].result]

\* len("; ".join(messages)[:200]), "unknown" for none.
JoinedLen(failures) ==
  IF failures = <<>> THEN 7
  ELSE Min(200, SeqSum([i \in 1..Len(failures) |-> failures[i].message_len])
                  + 2 * (Len(failures) - 1))

\* The RuntimeError of a job without a valid run: _get_llm_results raises
\* when no run returned a payload, the validation loop when none validated.
GenerationError(delivered) ==
  IF Len(OfKind(delivered, "transport_error")) = Len(delivered)
  THEN [exception |-> "RuntimeError", kind |-> "model_request_failed",
        message_len |-> 21 + JoinedLen(OfKind(delivered, "transport_error"))]
  ELSE [exception |-> "RuntimeError", kind |-> "all_consensus_runs_invalid",
        message_len |-> 27 + JoinedLen(OfKind(delivered, "invalid"))]

DetailLimit == 120

NoErrorCode == [code |-> ""]
DbWriteFailed == [code |-> "db_write_failed"]

AnalysisErrorCode_uncut(error) ==
  [code |-> "analysis_error", exception |-> error.exception, kind |-> error.kind,
   detail_len |-> error.message_len]

\* "analysis_error:<type>:<detail>", the detail cut to 120 characters.
AnalysisErrorCode(error) ==
  [code |-> "analysis_error", exception |-> error.exception, kind |-> error.kind,
   detail_len |-> Min(DetailLimit, error.message_len)]

\* The fallback file: absent, not JSON, rejected by _validate_result, or a
\* result it accepts.
FallbackFiles ==
  {[state |-> "missing"], [state |-> "corrupt"], [state |-> "invalid"]}
    \cup {[state |-> "valid", result |-> stored] : stored \in FallbackSamples}

FallbackException(file) ==
  IF file.state = "corrupt" THEN "JSONDecodeError" ELSE "RuntimeError"

\* The row of the analysis and the rows of its mistakes.
AnalysisRow(status, result_json, fallback_used, error_code) ==
  [status |-> status, result_json |-> result_json, fallback_used |-> fallback_used,
   error_code |-> error_code]

QueuedDb == [analysis |-> AnalysisRow("queued", <<>>, FALSE, NoErrorCode), mistakes |-> <<>>]

set_analysis_status(database, status, error_code) ==
  [database EXCEPT !.analysis.status = status, !.analysis.error_code = error_code]

mark_analysis_failed(database, error_code) ==
  [database EXCEPT !.analysis.status = "failed", !.analysis.error_code = error_code]

\* The uuid of the row written for the mistake at order_idx.
MistakeId(order_idx) == "m_" \o ToString(order_idx)

MistakeRow_first_idx(order_idx, mistake) ==
  [id |-> MistakeId(order_idx), order_idx |-> 0, type |-> mistake.type,
   points_deducted |-> mistake.points_deducted]

MistakeRow(order_idx, mistake) ==
  [id |-> MistakeId(order_idx), order_idx |-> order_idx, type |-> mistake.type,
   points_deducted |-> mistake.points_deducted]

\* The statements of save_analysis_result: the UPDATE, the DELETE and one
\* INSERT for each mistake.
StatementCount(result) == Len(result.mistakes) + 2

\* The rows inside the transaction after its first executed statements.
Executed(database, result, fallback_used, error_code, executed) ==
  IF executed = 0 THEN database
  ELSE [analysis |-> AnalysisRow("done", <<result>>, fallback_used, error_code),
        mistakes |-> IF executed = 1 THEN database.mistakes
                     ELSE [i \in 1..(executed - 2) |-> MistakeRow(i - 1, result.mistakes[i])]]

transaction_without_rollback(committed, working, completed) == working

\* db.transaction: commit when the block completes, rollback otherwise.
transaction(committed, working, completed) == IF completed THEN working ELSE committed

save_analysis_result(database, result, fallback_used, error_code, executed) ==
  transaction(database, Executed(database, result, fallback_used, error_code, executed),
              executed = StatementCount(result))

\* ORDER BY order_idx ASC
SortByOrderIdx(rows) == SortDesc(rows, [i \in 1..Len(rows) |-> 0 - rows[i].order_idx])

\* get_analysis: the row with the result's mistakes given the ids of the
\* stored rows, position by position.
WithMistakeIds(result, rows) ==
  [i \in 1..Len(result.mistakes) |->
     [mistake |-> result.mistakes[i],
      mistake_id |-> IF i <= Len(rows) THEN <<rows[i].id>> ELSE <<>>]]

get_analysis(database) ==
  [status |-> database.analysis.status,
   result |-> database.analysis.result_json,
   mistakes |-> IF database.analysis.result_json = <<>> THEN <<>>
                ELSE WithMistakeIds(database.analysis.result_json[1],
                                    SortByOrderIdx(database.mistakes)),
   fallback_used |-> database.analysis.fallback_used,
   error_code |-> database.analysis.error_code]

mistake_exists(database, mistake_id) ==
  \E i \in 1..Len(database.mistakes) : database.mistakes[i].id = mistake_id

(***************************************************************************)
(* OCR hint boxes: centre x, y and w, h in ten-thousandths of the page;    *)
(* bounds in halves of that unit, so that x - w/2 is an integer.           *)
(***************************************************************************)
Box(x, y, w, h) == [x |-> x, y |-> y, w |-> w, h |-> h]

PageEdge == 10000
MinBoxSide == 200

\* The first loop of _collapse_same_line_boxes: boxes without a positive
\* width and height are left out, the others clamped.
NormalizedBox(raw) ==
  Box(_clamp(raw.x, 0, PageEdge), _clamp(raw.y, 0, PageEdge),
      _clamp(raw.w, MinBoxSide, PageEdge), _clamp(raw.h, MinBoxSide, PageEdge))

NormalizedBoxes(boxes) ==
  LET kept == SelectSeq(boxes, LAMBDA raw : raw.w > 0 /\ raw.h > 0)
  IN [i \in 1..Len(kept) |-> NormalizedBox(kept[i])]

Bounds(x0, y0, x1, y1) == [x0 |-> x0, y0 |-> y0, x1 |-> x1, y1 |-> y1]

\* _box_bounds before its last test: the four edges clamped to the page.
ClampedBounds(box) ==
  Bounds(_clamp(2 * box.x - box.w, 0, 2 * PageEdge),
         _clamp(2 * box.y - box.h, 0, 2 * PageEdge),
         _clamp(2 * box.x + box.w, 0, 2 * PageEdge),
         _clamp(2 * box.y + box.h, 0, 2 * PageEdge))

\* _box_bounds: <<>> for None.
_box_bounds(box) ==
  IF box.w <= 0 \/ box.h <= 0 THEN <<>>
  ELSE IF ClampedBounds(box).x1 <= ClampedBounds(box).x0
            \/ ClampedBounds(box).y1 <= ClampedBounds(box).y0 THEN <<>>
  ELSE <<ClampedBounds(box)>>

OverlapW(f, s) == Max(0, Min(f.x1, s.x1) - Max(f.x0, s.x0))
OverlapH(f, s) == Max(0, Min(f.y1, s.y1) - Max(f.y0, s.y0))
MinW(f, s) == Min(f.x1 - f.x0, s.x1 - s.x0)
MinH(f, s) == Min(f.y1 - f.y0, s.y1 - s.y0)
YGap(f, s) == Max(0, Max(f.y0, s.y0) - Min(f.y1, s.y1))

\* x_overlap_ratio >= percent / 100, the ratio 0 for a vanishing width.
XOverlapAtLeast(f, s, percent) ==
  MinW(f, s) > 0 /\ 100 * OverlapW(f, s) >= percent * MinW(f, s)

YOverlapAtLeast(f, s, percent) ==
  MinH(f, s) > 0 /\ 100 * OverlapH(f, s) >= percent * MinH(f, s)

SameLineBounds(f, s) ==
  \/ XOverlapAtLeast(f, s, 55) /\ YOverlapAtLeast(f, s, 18)
  \/ XOverlapAtLeast(f, s, 70) /\ 10 * YGap(f, s) <= MinH(f, s)

_is_same_line_box(first, second) ==
  /\ _box_bounds(first) # <<>>
  /\ _box_bounds(second) # <<>>
  /\ SameLineBounds(_box_bounds(first)[1], _box_bounds(second)[1])

BoxAround_first(f, s) ==
  Box(RoundHalfEven(f.x0 + f.x1, 4), RoundHalfEven(f.y0 + f.y1, 4),
      RoundHalfEven(f.x1 - f.x0, 2), RoundHalfEven(f.y1 - f.y0, 2))

\* The box around both bounds, each number rounded to 4 decimals.
BoxAround(f, s) ==
  Box(RoundHalfEven(_clamp(Min(f.x0, s.x0) + Max(f.x1, s.x1), 0, 4 * PageEdge), 4),
      RoundHalfEven(_clamp(Min(f.y0, s.y0) + Max(f.y1, s.y1), 0, 4 * PageEdge), 4),
      RoundHalfEven(_clamp(Max(f.x1, s.x1) - Min(f.x0, s.x0), 2 * MinBoxSide,
                           2 * PageEdge), 2),
      RoundHalfEven(_clamp(Max(f.y1, s.y1) - Min(f.y0, s.y0), 2 * MinBoxSide,
                           2 * PageEdge), 2))

_merge_box_pair(first, second) ==
  IF _box_bounds(first) = <<>> THEN second
  ELSE IF _box_bounds(second) = <<>> THEN first
  ELSE BoxAround(_box_bounds(first)[1], _box_bounds(second)[1])

\* The second loop: a box joins the last merged one when on its line.
RECURSIVE MergeLines(_, _)
MergeLines(merged, rest) ==
  IF rest = <<>> THEN merged
  ELSE IF merged = <<>> THEN MergeLines(<<Head(rest)>>, Tail(rest))
  ELSE IF _is_same_line_box(merged[Len(merged)], Head(rest))
       THEN MergeLines([merged EXCEPT ![Len(merged)] =
                          _merge_box_pair(merged[Len(merged)], Head(rest))],
                       Tail(rest))
  ELSE MergeLines(Append(merged, Head(rest)), Tail(rest))

\* normalized.sort(key=y): ascending and stable.
SortByY(boxes) == SortDesc(boxes, [i \in 1..Len(boxes) |-> 0 - boxes[i].y])

_collapse_same_line_boxes(boxes) == MergeLines(<<>>, SortByY(NormalizedBoxes(boxes)))

\* The boxes of the test of the collapse, and boxes as the producers of
\* ocr.py can give them: one that reaches over the top of the page (the
\* word boxes carry the corner where the centre is read), one along the
\* top edge, one just under a line, one beside it, one thinner than the
\* minimum and one without width.
UpperLineBox == Box(5000, 3000, 7000, 1200)
OverlappingBox == Box(5100, 3400, 7200, 1100)
LowerLineBox == Box(5200, 6200, 6800, 1200)
TopCornerBox == Box(3000, 0, 4000, 2000)
TopEdgeBox == Box(3200, 200, 3000, 1000)
AdjacentBelowBox == Box(5000, 4210, 7000, 1200)
BesideBox == Box(9000, 3000, 1000, 1200)
ThinBox == Box(5000, 3100, 100, 1200)
EmptyBox == Box(5000, 3000, 0, 1200)

BoxSamples ==
  {UpperLineBox, OverlappingBox, LowerLineBox, TopCornerBox, TopEdgeBox, AdjacentBelowBox,
   BesideBox, ThinBox, EmptyBox}

SuggestedBoxes == DistinctSeqsUpTo(BoxSamples, MaxBoxes)

\* What suggest_ocr_boxes returns in a job.
JobBoxes == {<<UpperLineBox, OverlappingBox>>, <<TopEdgeBox, TopCornerBox>>}

Hints(suggested, collapsed) == [suggested |-> suggested, collapsed |-> collapsed]
NoHints == Hints(<<>>, <<>>)

(***************************************************************************)
(* The analysis job.                                                       *)
(***************************************************************************)
VARIABLES
  pc,              \* the next step of the job
  mode,            \* "job": the whole of process_analysis_job; "unit": one stage
  validated_runs,  \* the model runs that passed validation
  validated,       \* the result being post-processed
  report,          \* the verification report of the guardrails
  ocr,             \* what OCR reads from the problem and solution images
  boxes,           \* the hint boxes OCR suggests and what they collapse to
  candidate,       \* the candidate of one run and what validation made of it
  raw_runs,        \* what each requested model run delivered
  error_code,      \* the error code the job will store
  db,              \* the committed rows: the analysis and its mistakes
  raised,          \* the exception the job let through, "" for none
  consensus_meta,
  fallback_used,
  before,          \* validated as the last stage received it
  stage            \* the last stage that ran

vars == <<pc, mode, validated_runs, validated, report, ocr, boxes, candidate, raw_runs, error_code, db,
          raised, consensus_meta, fallback_used, before, stage>>

NoResult == Result(0, FlatRubric(0), <<>>, 0, "", <<>>, <<>>)
NoReport == Report(<<>>, <<>>, <<>>, <<>>, 0, FALSE)

(***************************************************************************)
(* _validate_result: the normalization of a candidate and its schema.      *)
(***************************************************************************)
\* "근거 부족" and "검토 필요".
ShortGenericA == Text(5, {"generic_short"})
ShortGenericB == Text(5, {"generic_review"})

\* generic_phrases of _normalize_evidence.
GenericPhrases == {GenericEvidenceA, ShortGenericA, ShortGenericB}

\* template_map of _normalize_evidence and its default.
EvidenceTemplate(mistake_type) ==
  IF mistake_type = "FINAL_FORM_ERROR" THEN Text(34, {"template", "final"})
  ELSE IF mistake_type = "SIGN_ERROR" THEN Text(27, {"template", "sign"})
  ELSE IF mistake_type = "UNIT_ERROR" THEN Text(30, {"template", "unit"})
  ELSE IF mistake_type = "ALGEBRA_ERROR" THEN Text(29, {"template", "algebra"})
  ELSE Text(28, {"template", "unclear"})

_normalize_evidence(text, mistake_type) ==
  IF text.len > 0 /\ text \notin GenericPhrases /\ text.len >= 10 THEN text
  ELSE EvidenceTemplate(mistake_type)

\* A fix instruction is named by a string; "" is a missing, short or
\* generic one, which the type's template replaces.
_normalize_fix_instruction(text, mistake_type) ==
  IF text # "" THEN text
  ELSE IF mistake_type = "SIGN_ERROR" THEN "fix_signs"
  ELSE IF mistake_type = "UNIT_ERROR" THEN "fix_unit"
  ELSE IF mistake_type = "CONDITION_MISSED" THEN "fix_conditions"
  ELSE IF mistake_type = "ALGEBRA_ERROR" THEN "fix_algebra"
  ELSE IF mistake_type = "FINAL_FORM_ERROR" THEN "fix_final"
  ELSE IF mistake_type = "LOGIC_GAP" THEN "fix_logic"
  ELSE "generic_fix"

\* "풀이 중간 구간" and "해당 부분".
MiddlePart == Text(8, {"middle", "part"})
ThatPart == Text(5, {"that", "part"})

_normalize_location_hint(text, mistake_type) ==
  IF text.len > 0 /\ text \notin {MiddlePart, ThatPart} THEN text
  ELSE IF mistake_type = "FINAL_FORM_ERROR" THEN FinalLineHint
  ELSE IF mistake_type = "UNIT_ERROR" THEN Text(7, {"unit", "line"})
  ELSE IF mistake_type = "SIGN_ERROR" THEN Text(10, {"sign", "line"})
  ELSE IF mistake_type = "CONDITION_MISSED" THEN Text(10, {"kw_first", "condition", "line"})
  ELSE MiddlePart

_normalize_points_by_severity(points, severity) ==
  IF severity = "high" THEN Max(points, 1000)
  ELSE IF severity = "med" THEN Max(points, 400)
  ELSE Min(points, 800)

\* A highlight; <<>> is a coordinate that is null or not there, "" a mode or
\* shape that is not there.  Coordinates are in ten-thousandths.
Highlight(hl_mode, shape, x, y, w, h) ==
  [mode |-> hl_mode, shape |-> shape, x |-> x, y |-> y, w |-> w, h |-> h]

CoordinateKeys == {"x", "y", "w", "h"}

HighlightComplete(highlight) == \A key \in CoordinateKeys : highlight[key] # <<>>

\* round(clamp(value), 4)
_normalize_highlight_value(key, value) ==
  IF key \in {"x", "y"} THEN _clamp(value, 0, PageEdge) ELSE _clamp(value, MinBoxSide, PageEdge)

\* The highlight _normalize_mistake builds: a key is set only when its
\* value is a number, and an incomplete box falls back to a bare tap.
NormalizedHighlight(highlight) ==
  LET picked == IF highlight.mode \in {"tap", "ocr_box", "region_box"} THEN highlight.mode
                ELSE "tap"
      shape == IF highlight.shape \in {"circle", "box"} THEN highlight.shape ELSE "circle"
      value(key) == IF highlight[key] = <<>> THEN <<>>
                    ELSE <<_normalize_highlight_value(key, highlight[key][1])>>
      built == Highlight(picked, shape, value("x"), value("y"), value("w"), value("h"))
  IN IF picked \in {"ocr_box", "region_box"} /\ ~HighlightComplete(built)
     THEN Highlight("tap", shape, <<>>, <<>>, <<>>, <<>>)
     ELSE built

\* A mistake item of a candidate; "" and <<>> are values that are not there.
RawMistake(type, severity, points, evidence, fix, location, highlight) ==
  [type |-> type, severity |-> severity, points_deducted |-> points, evidence |-> evidence,
   fix_instruction |-> fix, location_hint |-> location, highlight |-> highlight]

_normalize_mistake(item) ==
  LET mistake_type == IF InSeq(item.type, MistakeTypes) THEN item.type ELSE "LOGIC_GAP"
      severity == IF item.severity \in Severities THEN item.severity ELSE "med"
      points == IF item.points_deducted = <<>> THEN 500 ELSE item.points_deducted[1]
  IN RawMistake(mistake_type, severity,
                round2(_clamp(_normalize_points_by_severity(points, severity), 0, 2000), 1),
                Untagged(_normalize_evidence(_clean_text(item.evidence, GenericEvidenceA, 240),
                                             mistake_type)),
                _normalize_fix_instruction(item.fix_instruction, mistake_type),
                _normalize_location_hint(_clean_text(item.location_hint, MiddlePart, 120),
                                         mistake_type),
                NormalizedHighlight(item.highlight))

\* The mistake without its highlight, as the guardrails read it.
Graded(item) ==
  Mistake(item.type, item.severity, item.points_deducted, item.evidence,
          item.fix_instruction, item.location_hint)

\* _calibrate_confidence
_calibrate_confidence(base_confidence, mistakes, score_total, missing_info) ==
  LET missing_penalty == Min(320, Len(missing_info) * 80)
      empty_penalty == IF mistakes = <<>> /\ score_total < 9000 THEN 100 ELSE 0
      incomplete == SelectSeq(mistakes, LAMBDA item :
                                item.highlight.mode \in {"ocr_box", "region_box"}
                                  /\ ~HighlightComplete(item.highlight))
      highlight_penalty == Min(180, Len(incomplete) * 60)
  IN round2(_clamp(_clamp(base_confidence, 0, 1000) - missing_penalty - empty_penalty
                     - highlight_penalty, 0, 1000), 1)

\* _harmonize_score_with_deductions
_harmonize_score_with_deductions(payload) ==
  LET deduction_score == round2(_clamp(10000 - SeqSum(PointsOf(payload.mistakes)), 0, 10000), 1)
  IN IF Abs(payload.score_total - deduction_score) > 3000
     THEN [payload EXCEPT !.score_total = round2(@ + deduction_score, 2)]
     ELSE payload

\* _reconcile_rubric_with_score
_reconcile_rubric_with_score(payload) ==
  LET delta == payload.score_total - RubricSum(payload.rubric_scores)
      step == round3(delta, 5)
      adjusted == [key \in DOMAIN payload.rubric_scores |->
                     round2(_clamp(payload.rubric_scores[key] + step, 0, 2000), 1)]
  IN IF Abs(delta) <= 250 THEN payload
     ELSE [payload EXCEPT
             !.rubric_scores = adjusted,
             !.score_total = IF Abs(RubricSum(adjusted) - @) > 400
                             THEN round2(@ + RubricSum(adjusted), 2) ELSE @]

\* _inject_uncertainty_hint
_inject_uncertainty_hint(payload) ==
  IF payload.confidence >= 450 THEN payload
  ELSE [payload EXCEPT
          !.missing_info = Prefix(IF InSeq(LegibilityHint, @) THEN @
                                  ELSE Append(@, LegibilityHint), MaxMissingInfo)]

\* _ensure_required_defaults on a candidate whose score, rubric, checklist,
\* confidence, verdict and notes are there, with at most one mistake item.
_ensure_required_defaults(payload) ==
  LET score == _clamp(payload.score_total, 0, 10000)
      rubric == [key \in DOMAIN payload.rubric_scores |->
                   round2(_clamp(payload.rubric_scores[key], 0, 2000), 1)]
      normalized_mistakes == [i \in 1..Len(payload.mistakes) |->
                                _normalize_mistake(payload.mistakes[i])]
      missing == Prefix(payload.missing_info, MaxMissingInfo)
      filled == [payload EXCEPT
                   !.score_total = score,
                   !.rubric_scores = rubric,
                   !.mistakes = normalized_mistakes,
                   !.next_checklist = Prefix(@, MaxChecklist),
                   !.confidence = _calibrate_confidence(@, normalized_mistakes, score,
                                                        payload.missing_info),
                   !.missing_info = missing]
  IN _inject_uncertainty_hint(_reconcile_rubric_with_score(
       _harmonize_score_with_deductions(filled)))

\* The "required" list of the highlight of ANALYSIS_RESULT_JSON_SCHEMA and
\* its enums: a key that is not set fails the schema.
HighlightSchemaAccepts(highlight) ==
  /\ highlight.mode \in {"tap", "ocr_box", "region_box"}
  /\ highlight.shape \in {"circle", "box"}
  /\ HighlightComplete(highlight)

\* ANALYSIS_RESULT_JSON_SCHEMA on a normalized candidate.
SchemaAccepts(payload) ==
  /\ payload.score_total >= 0 /\ payload.score_total <= 10000
  /\ \A key \in DOMAIN payload.rubric_scores :
        payload.rubric_scores[key] >= 0 /\ payload.rubric_scores[key] <= 2000
  /\ Len(payload.mistakes) <= MaxMistakeCount
  /\ \A i \in 1..Len(payload.mistakes) :
        LET item == payload.mistakes[i]
        IN /\ InSeq(item.type, MistakeTypes)
           /\ item.severity \in Severities
           /\ item.points_deducted >= 0 /\ item.points_deducted <= 2000
           /\ item.evidence.body.len <= 240
           /\ item.location_hint.len <= 120
           /\ HighlightSchemaAccepts(item.highlight)
  /\ Len(payload.next_checklist) >= 1 /\ Len(payload.next_checklist) <= MaxChecklist
  /\ payload.confidence >= 0 /\ payload.confidence <= 1000
  /\ Len(payload.missing_info) <= MaxMissingInfo
  /\ payload.answer_verdict \in {"correct", "incorrect", "unknown"}

\* _validate_result: the normalized candidate, or the RuntimeError
\* schema_validation_failed.
_validate_result(data) ==
  LET normalized_input == _ensure_required_defaults(data)
  IN IF SchemaAccepts(normalized_input)
     THEN [accepted |-> TRUE, normalized |-> normalized_input,
           result |-> [normalized_input EXCEPT
                         !.mistakes = [i \in 1..Len(@) |-> Graded(@[i])]]]
     ELSE [accepted |-> FALSE, normalized |-> normalized_input, result |-> NoResult]

\* What a stage received as candidate, and what _validate_result made of it.
Candidate(data, normalized, accepted) ==
  [data |-> data, normalized |-> normalized, accepted |-> accepted]
NoCandidate == Candidate(NoResult, NoResult, FALSE)

\* The stages in the order process_analysis_job and
\* _apply_reasoning_guardrails run them.
Pipeline ==
  <<"merge", "simple_equation", "report", "inject", "gate", "dedupe", "cap",
    "uncertainty", "verdict", "coverage", "reconcile", "hints", "save">>

Following(current) ==
  IF mode = "unit" THEN "done"
  ELSE Pipeline[1 + CHOOSE i \in 1..(Len(Pipeline) - 1) : Pipeline[i] = current]

\* The job as routes.py queues it: create_analysis has inserted the row.
Init ==
  /\ pc = "queued"
  /\ mode = "job"
  /\ raw_runs = <<>>
  /\ error_code = NoErrorCode
  /\ db = QueuedDb
  /\ raised = ""
  /\ validated_runs = <<>>
  /\ validated = NoResult
  /\ report = NoReport
  /\ ocr \in JobReadings
  /\ boxes = NoHints
  /\ candidate = NoCandidate
  /\ consensus_meta = ConsensusMeta(1, 1, 1000, 0)
  /\ fallback_used = FALSE
  /\ before = NoResult
  /\ stage = "start"

\* One stage that rewrites validated.
Ran(name, after) ==
  /\ pc = name
  /\ validated' = after
  /\ before' = validated
  /\ stage' = name
  /\ pc' = Following(name)
  /\ UNCHANGED <<mode, validated_runs, report, ocr, boxes, candidate, raw_runs, db, raised>>

\* The first statement of process_analysis_job.
SetProcessing ==
  /\ pc = "queued"
  /\ db' = set_analysis_status(db, "processing", NoErrorCode)
  /\ pc' = "start"
  /\ UNCHANGED <<mode, validated_runs, validated, report, ocr, boxes, candidate, raw_runs, error_code,
                 raised, consensus_meta, fallback_used, before, stage>>

\* _get_llm_results and the validation loop: the runs that came back and
\* passed _validate_result.
GetLlmResults ==
  /\ pc = "start"
  /\ \E delivered \in RunOutcomes :
        /\ raw_runs' = delivered
        /\ validated_runs' = ValidatedRuns(delivered)
  /\ pc' = "merge"
  /\ UNCHANGED <<mode, validated, report, ocr, boxes, candidate, error_code, db, raised, consensus_meta,
                 fallback_used, before, stage>>

MergeConsensus ==
  /\ validated_runs # <<>>
  /\ LET merged == _merge_consensus_results(validated_runs, Max(1, ConsensusRuns))
     IN /\ Ran("merge", merged.result)
        /\ consensus_meta' = merged.meta
  /\ UNCHANGED <<fallback_used, error_code>>

\* No run was valid: the except branch records the error and loads the
\* stored fallback result, outside any handler of its own.
LoadFallback ==
  /\ pc = "merge"
  /\ validated_runs = <<>>
  /\ fallback_used' = TRUE
  /\ error_code' = AnalysisErrorCode(GenerationError(raw_runs))
  /\ \E file \in FallbackFiles :
        IF file.state = "valid"
        THEN /\ validated' = file.result
             /\ before' = validated
             /\ stage' = "merge"
             /\ pc' = Following("merge")
             /\ raised' = ""
        ELSE /\ raised' = FallbackException(file)
             /\ pc' = "raised"
             /\ UNCHANGED <<validated, before, stage>>
  /\ UNCHANGED <<mode, validated_runs, report, ocr, boxes, candidate, raw_runs, db, consensus_meta>>

\* expected and given are what OCR reads from the problem and the solution.
SimpleEquationConsistency ==
  /\ \E reading \in SimpleReadings :
        Ran("simple_equation",
            _apply_simple_equation_consistency(validated, reading[1], reading[2]))
  /\ UNCHANGED <<consensus_meta, fallback_used, error_code>>

\* The first line of _apply_reasoning_guardrails.
BuildVerificationReport ==
  /\ pc = "report"
  /\ report' = _build_verification_report(ocr)
  /\ stage' = "report"
  /\ pc' = Following("report")
  /\ UNCHANGED <<mode, validated_runs, validated, ocr, boxes, candidate, raw_runs, error_code, db, raised,
                 consensus_meta, fallback_used, before>>

InjectVerificationFindings ==
  /\ Ran("inject", _inject_verification_findings(validated, report))
  /\ UNCHANGED <<consensus_meta, fallback_used, error_code>>

EnforceEvidenceGate ==
  /\ Ran("gate", _enforce_evidence_gate(validated, report))
  /\ UNCHANGED <<consensus_meta, fallback_used, error_code>>

DedupeMistakesByStepRule ==
  /\ Ran("dedupe", _dedupe_mistakes_by_step_rule(validated))
  /\ UNCHANGED <<consensus_meta, fallback_used, error_code>>

ApplyVerifiedWrongFinalCap ==
  /\ Ran("cap", _apply_verified_wrong_final_cap(validated, report))
  /\ UNCHANGED <<consensus_meta, fallback_used, error_code>>

ApplyUncertaintyPolicy ==
  /\ Ran("uncertainty", _apply_uncertainty_policy(validated, report, consensus_meta))
  /\ UNCHANGED <<consensus_meta, fallback_used, error_code>>

ApplyAnswerVerdictPolicy ==
  /\ Ran("verdict", _apply_answer_verdict_policy(validated, report))
  /\ UNCHANGED <<consensus_meta, fallback_used, error_code>>

EnsureMistakeCoverage ==
  /\ Ran("coverage", _ensure_mistake_coverage(validated, report))
  /\ UNCHANGED <<consensus_meta, fallback_used, error_code>>

ReconcileScoreFromDeductions ==
  /\ Ran("reconcile", _reconcile_score_from_deductions(validated))
  /\ UNCHANGED <<consensus_meta, fallback_used, error_code>>

\* The last statement: the write may fail after any number of its
\* statements; the job then marks the analysis failed and re-raises.
SaveAnalysisResult ==
  /\ pc = "save"
  /\ \E executed \in 0..StatementCount(validated) :
        /\ db' = IF executed = StatementCount(validated)
                 THEN save_analysis_result(db, validated, fallback_used, error_code, executed)
                 ELSE mark_analysis_failed(
                        save_analysis_result(db, validated, fallback_used, error_code,
                                             executed),
                        DbWriteFailed)
        /\ raised' = IF executed = StatementCount(validated) THEN "" ELSE "OperationalError"
        /\ pc' = IF executed = StatementCount(validated) THEN "returned" ELSE "raised"
  /\ stage' = "save"
  /\ UNCHANGED <<mode, validated_runs, validated, report, ocr, boxes, candidate, raw_runs, error_code,
                 consensus_meta, fallback_used, before>>

\* _inject_ocr_hints: the boxes suggest_ocr_boxes returns, collapsed to one
\* for each line.
InjectOcrHints ==
  /\ pc = "hints"
  /\ \E suggested \in (IF mode = "unit" THEN {boxes.suggested} ELSE JobBoxes) :
        boxes' = Hints(suggested, _collapse_same_line_boxes(suggested))
  /\ stage' = "hints"
  /\ pc' = Following("hints")
  /\ UNCHANGED <<mode, validated_runs, validated, report, ocr, candidate, raw_runs,
                 error_code, db, raised, consensus_meta, fallback_used, before>>

\* _validate_result on the candidate of one run; the gate is the next
\* stage to read an accepted candidate's mistakes.
ValidateResult ==
  /\ pc = "validate"
  /\ LET outcome == _validate_result(candidate.data)
     IN /\ candidate' = Candidate(candidate.data, outcome.normalized, outcome.accepted)
        /\ validated' = outcome.result
        /\ raised' = IF outcome.accepted THEN "" ELSE "RuntimeError"
        /\ pc' = IF outcome.accepted THEN "gate" ELSE "rejected"
  /\ before' = validated
  /\ stage' = "validate"
  /\ UNCHANGED <<mode, validated_runs, report, ocr, boxes, raw_runs, error_code, db,
                 consensus_meta, fallback_used>>

Next ==
  \/ SetProcessing
  \/ GetLlmResults
  \/ MergeConsensus
  \/ LoadFallback
  \/ SimpleEquationConsistency
  \/ BuildVerificationReport
  \/ InjectVerificationFindings
  \/ EnforceEvidenceGate
  \/ DedupeMistakesByStepRule
  \/ ApplyVerifiedWrongFinalCap
  \/ ApplyUncertaintyPolicy
  \/ ApplyAnswerVerdictPolicy
  \/ EnsureMistakeCoverage
  \/ ReconcileScoreFromDeductions
  \/ InjectOcrHints
  \/ SaveAnalysisResult

Spec == Init /\ [][Next]_vars

(***************************************************************************)
(* One stage on its own: the stage is entered with a result, a report and  *)
(* a consensus meta of its input domain, and returns.                      *)
(***************************************************************************)
\* Mistakes as the stages meet them: untagged and tagged evidence, a
\* concrete reason, a boilerplate one and a short one, all severities, and
\* points from 0 to 2.
FinalSlip ==
  Mistake("FINAL_FORM_ERROR", "high", 1500, ConcreteEvidence("final"), "fix_final",
          FinalLineHint)
FaintFinalSlip ==
  Mistake("FINAL_FORM_ERROR", "low", 250, ConcreteEvidence("form"), "fix_final", FinalLineHint)
BoilerplateSlip ==
  Mistake("ARITHMETIC_ERROR", "med", 500, Untagged(GenericEvidenceB), "fix_arithmetic",
          Text(4, {"calculation", "line"}))
ShortTaggedSlip ==
  Mistake("LOGIC_GAP", "low", 250,
          Evidence("s1", "RULE_EQUIV_TRANSFORM", Text(5, {"unclear"})), "fix_logic",
          MiddleHint)
SignSlip ==
  Mistake("SIGN_ERROR", "low", 100, ConcreteEvidence("sign"), "fix_sign",
          Text(9, {"kw_second", "line"}))
TaggedSlip ==
  Mistake("LOGIC_GAP", "high", 2000,
          Evidence("s1", "RULE_EQUIV_TRANSFORM",
                   Text(30, {"reason_label", "transform", "differ"})),
          "fix_expand", Text(7, {"x", "eq", "2"}))
TaggedTie ==
  Mistake("ALGEBRA_ERROR", "med", 250,
          Evidence("s1", "RULE_EQUIV_TRANSFORM",
                   Text(28, {"reason_label", "cancel", "wrong"})),
          "fix_cancel", Text(7, {"x", "eq", "1"}))
HeldSlip ==
  Mistake("ARITHMETIC_ERROR", "low", 0,
          Evidence("s2", "RULE_EQUIV_TRANSFORM", Text(26, {"reason_label", "hold_reason"})),
          "fix_arithmetic", Text(4, {"calculation", "line"}))
TinySlip ==
  Mistake("UNIT_ERROR", "low", 30, ConcreteEvidence("unit"), "fix_unit",
          Text(9, {"kw_first", "line"}))

NoContextReport == Report(<<>>, <<>>, <<>>, <<>>, 470, FALSE)

UnitResult(score_total, rubric_scores, mistakes, confidence, answer_verdict) ==
  Result(score_total, rubric_scores, mistakes, confidence, answer_verdict, <<>>,
         <<"check_final">>)

\* The entry of one stage.
Entered(name, result, verification, meta) ==
  /\ pc = name
  /\ validated = result
  /\ report = verification
  /\ ocr = NoReading
  /\ boxes = NoHints
  /\ candidate = NoCandidate
  /\ consensus_meta = meta
  /\ validated_runs = <<>>

FullAgreement == ConsensusMeta(1, 1, 1000, 0)

GateEntry ==
  \E mistakes \in SeqsUpTo({FinalSlip, BoilerplateSlip, ShortTaggedSlip, SignSlip, HeldSlip},
                           MaxMistakes),
     verification \in {NoContextReport, BuiltReport(1, FALSE, "none"),
                       BuiltReport(0, FALSE, "unreadable"), BuiltReport(2, TRUE, "fail")} :
     Entered("gate", UnitResult(8000, FlatRubric(1600), mistakes, 700, "unknown"),
             verification, FullAgreement)

DedupeEntry ==
  \E mistakes \in SeqsUpTo({FinalSlip, BoilerplateSlip, ShortTaggedSlip, TaggedSlip,
                            TaggedTie, HeldSlip}, MaxMistakes) :
     Entered("dedupe", UnitResult(8000, FlatRubric(1600), mistakes, 700, "unknown"),
             NoContextReport, FullAgreement)

CapEntry ==
  \E score \in {0, 6500, 7333, 10000},
     mistakes \in SeqsUpTo({FinalSlip, FaintFinalSlip, BoilerplateSlip}, MaxMistakes),
     outcome \in FinalOutcomes :
     Entered("cap", UnitResult(score, FlatRubric(round2(score, 5)), mistakes, 900, "unknown"),
             BuiltReport(1, FALSE, outcome), FullAgreement)

\* The first count notes a result holds before the policy runs.
Notes(count) == [i \in 1..count |-> "missing#" \o ToString(i)]

UncertaintyEntry ==
  \E score \in {0, 5000, 8400, 9500},
     mistakes \in SeqsUpTo({FinalSlip, ShortTaggedSlip}, MaxMistakes),
     confidence \in {200, 900},
     built \in {NoContextReport, BuiltReport(1, FALSE, "pass"), BuiltReport(2, TRUE, "pass"),
                BuiltReport(1, FALSE, "fail"), BuiltReport(1, FALSE, "unreadable"),
                BuiltReport(0, FALSE, "unreadable")},
     verifier_confidence \in {200, 900},
     requires_review \in BOOLEAN,
     agreement \in {400, 1000},
     notes \in {<<>>, Notes(MaxMissingInfo - 1), Notes(MaxMissingInfo)} :
     Entered("uncertainty",
             [UnitResult(score, FlatRubric(round2(score, 5)), mistakes, confidence, "unknown")
                EXCEPT !.missing_info = notes],
             [built EXCEPT !.confidence = verifier_confidence,
                           !.requires_review = requires_review],
             ConsensusMeta(ConsensusRuns, 2, agreement, 1200))

FindingPool ==
  {FinalFinding("s2", "pass"), FinalFinding("s2", "fail"), FinalFinding("s2", "unreadable"),
   TransformFinding(2, TRUE), TransformFinding(2, FALSE)}

VerdictEntry ==
  \E score \in {0, 3000, 7333, 10000},
     rubric \in {1, 2},
     prior \in {"", "unknown", "correct", "incorrect"},
     findings \in SeqsUpTo(FindingPool, MaxFindings),
     reading \in SimpleReadings
                   \cup {<<<<3000>>, <<>>>>, <<<<3000>>, <<3050>>>>, <<<<3000>>, <<3060>>>>} :
     Entered("verdict",
             UnitResult(score,
                        IF rubric = 1 THEN FlatRubric(round2(score, 5))
                        ELSE Rubric(2000, 2000, 1000, 1000, 0),
                        <<>>, 700, prior),
             Report(<<StepText(1), StepText(2)>>, findings, reading[1], reading[2], 800,
                    FALSE),
             FullAgreement)

CoverageEntry ==
  \E score \in {0, 4000, 8670, 9500, 9900, 10000},
     full \in BOOLEAN,
     verdict \in {"correct", "unknown"},
     mistakes \in SeqsUpTo({FinalSlip, ShortTaggedSlip, TaggedSlip, HeldSlip, TinySlip},
                           MaxMistakes),
     verification \in {NoContextReport, BuiltReport(1, FALSE, "pass"),
                       BuiltReport(2, TRUE, "none")} :
     Entered("coverage",
             UnitResult(score, IF full THEN FlatRubric(2000) ELSE FlatRubric(round2(score, 5)),
                        mistakes, 700, verdict),
             verification, FullAgreement)

\* The report builder is entered with the readings of the two images.
ReportEntry ==
  /\ pc = "report"
  /\ validated = NoResult
  /\ report = NoReport
  /\ ocr \in OcrReadings
  /\ boxes = NoHints
  /\ candidate = NoCandidate
  /\ consensus_meta = FullAgreement
  /\ validated_runs = <<>>

\* Runs as _validate_result returns them, mistakes in the order of
\* _sort_mistakes.  The first reports one location twice, with two fixes
\* (_deduplicate_mistakes keeps both); the second scores as RunResult(1)
\* does and differs from it in everything the anchor lends.
TwiceReportedRun ==
  Result(7000, FlatRubric(1400),
         <<Mistake("ARITHMETIC_ERROR", "med", 600, ConcreteEvidence("carry"), "fix_carry",
                   Text(4, {"calculation", "line"})),
           Mistake("ARITHMETIC_ERROR", "med", 500, Untagged(GenericEvidenceB),
                   "fix_arithmetic", Text(4, {"calculation", "line"}))>>,
         600, "incorrect", <<"blurred_line">>, <<"check_arithmetic">>)

TiedRun ==
  Result(8500, Rubric(2000, 2000, 2000, 1500, 1000),
         <<Mistake("FINAL_FORM_ERROR", "high", 1500, ConcreteEvidence("units"), "fix_units",
                   FinalLineHint),
           Mistake("SIGN_ERROR", "low", 100, ConcreteEvidence("sign"), "fix_sign",
                   Text(9, {"kw_second", "line"}))>>,
         800, "unknown", <<"blurred_line", LegibilityHint>>, <<"check_signs">>)

MergeRuns == RunSamples \cup {TwiceReportedRun, TiedRun}

\* The merge is entered with the runs that validated, at most as many as
\* were requested.
MergeEntry ==
  /\ pc = "merge"
  /\ validated = NoResult
  /\ report = NoReport
  /\ ocr = NoReading
  /\ boxes = NoHints
  /\ candidate = NoCandidate
  /\ consensus_meta = FullAgreement
  /\ validated_runs \in UNION {[1..n -> MergeRuns] : n \in 1..Max(1, ConsensusRuns)}

\* The collapse is entered with the boxes suggest_ocr_boxes returned.
HintsEntry ==
  /\ pc = "hints"
  /\ validated = NoResult
  /\ report = NoReport
  /\ ocr = NoReading
  /\ boxes \in {Hints(suggested, <<>>) : suggested \in SuggestedBoxes}
  /\ candidate = NoCandidate
  /\ consensus_meta = FullAgreement
  /\ validated_runs = <<>>

\* What a model writes as evidence: nothing, a generic phrase, a few
\* characters, or a sentence.  GenericEvidenceB is the phrase of
\* _DEFAULT_GENERIC_EVIDENCE that _normalize_evidence does not list.
RawEvidences ==
  {EmptyText, GenericEvidenceA, GenericEvidenceB, ShortGenericA, Text(9, {"slip", "here"}),
   Text(34, {"sign", "because", "line"})}

\* What a model writes as highlight: a tap or a box with every coordinate,
\* a tap with its point only, a tap with null coordinates as the prompt asks
\* for an uncertain region, a box with one coordinate, or nothing.
RawHighlights ==
  {Highlight("tap", "circle", <<4000>>, <<3000>>, <<500>>, <<500>>),
   Highlight("region_box", "box", <<4000>>, <<12000>>, <<100>>, <<500>>),
   Highlight("tap", "circle", <<4000>>, <<3000>>, <<>>, <<>>),
   Highlight("tap", "circle", <<>>, <<>>, <<>>, <<>>),
   Highlight("ocr_box", "box", <<4000>>, <<>>, <<>>, <<>>),
   Highlight("", "", <<>>, <<>>, <<>>, <<>>)}

RawMistakes ==
  {RawMistake(type, severity, points, evidence, "", EmptyText, highlight) :
     type \in {"", "FINAL_FORM_ERROR", "SIGN_ERROR"},
     severity \in {"", "low", "high"},
     points \in {<<>>, <<0>>, <<1500>>},
     evidence \in RawEvidences,
     highlight \in RawHighlights}

\* Validation is entered with the payload of one run.
ValidateEntry ==
  /\ pc = "validate"
  /\ validated = NoResult
  /\ report \in {NoContextReport, BuiltReport(1, FALSE, "none")}
  /\ ocr = NoReading
  /\ boxes = NoHints
  /\ \E score \in {5000, 9000}, mistakes \in SeqsUpTo(RawMistakes, 1) :
        candidate = Candidate(UnitResult(score, FlatRubric(round2(score, 5)), mistakes, 620,
                                         "unknown"),
                              NoResult, FALSE)
  /\ consensus_meta = FullAgreement
  /\ validated_runs = <<>>

InitUnit ==
  /\ mode = "unit"
  /\ raw_runs = <<>>
  /\ error_code = NoErrorCode
  /\ db = QueuedDb
  /\ raised = ""
  /\ fallback_used = FALSE
  /\ before = NoResult
  /\ stage = "start"
  /\ \/ GateEntry
     \/ DedupeEntry
     \/ CapEntry
     \/ UncertaintyEntry
     \/ VerdictEntry
     \/ CoverageEntry
     \/ ReportEntry
     \/ MergeEntry
     \/ HintsEntry
     \/ ValidateEntry

NextUnit ==
  \/ MergeConsensus
  \/ BuildVerificationReport
  \/ EnforceEvidenceGate
  \/ DedupeMistakesByStepRule
  \/ ApplyVerifiedWrongFinalCap
  \/ ApplyUncertaintyPolicy
  \/ ApplyAnswerVerdictPolicy
  \/ EnsureMistakeCoverage
  \/ InjectOcrHints
  \/ ValidateResult

SpecUnit == InitUnit /\ [][NextUnit]_vars

(***************************************************************************)
(* Properties.                                                             *)
(***************************************************************************)
WithinBounds(result) ==
  /\ result.score_total >= 0 /\ result.score_total <= 10000
  /\ \A key \in DOMAIN result.rubric_scores :
        result.rubric_scores[key] >= 0 /\ result.rubric_scores[key] <= 2000
  /\ \A i \in 1..Len(result.mistakes) :
        result.mistakes[i].points_deducted >= 0 /\ result.mistakes[i].points_deducted <= 2000
  /\ result.confidence >= 0 /\ result.confidence <= 1000
  /\ Len(result.mistakes) <= 20

\* C1: after every stage of the job (consensus merge or fallback, simple
\* equation adjustment, injection, evidence gate, dedup, wrong-final cap,
\* uncertainty policy, verdict policy, deduction balancer, reconcile) the
\* score is in [0,10], every rubric dimension in [0,2], every deduction in
\* [0,2], the confidence in [0,1], and there are at most 20 mistakes.
C1_BoundsAfterEveryStage == stage # "start" => WithinBounds(validated)

\* A job that went through every stage with a full list of 20 mistakes that
\* injection had to cut.
C1_Witness ==
  /\ pc = "hints"
  /\ stage = "reconcile"
  /\ Len(validated.mistakes) = 20
  /\ FailedFindings(report) # <<>>

\* round(value, 1) of a value in thousandths.
Round1(value) == 100 * RoundHalfEven(value, 100)

DeductionsBalance(result) ==
  /\ Abs(Round1(result.score_total) + Round1(SeqSum(PointsOf(result.mistakes))) - 10000) <= 50
  /\ \A i \in 1..Len(result.mistakes) : result.mistakes[i].points_deducted % 100 = 0

\* The verdict is correct and no finding of the report failed.
VerifiedCorrect(result, verification) ==
  /\ result.answer_verdict = "correct"
  /\ \A i \in 1..Len(verification.findings) : verification.findings[i].passed

\* C2 as stated: after _ensure_mistake_coverage, for any answer verdict and
\* any verification report, round(score_total,1) + round(sum of
\* points_deducted,1) is 10.0 within 0.05 and every surviving deduction is a
\* whole multiple of 0.1.
C2_BalancedForAnyVerdict == stage = "coverage" => DeductionsBalance(validated)

\* C2: after _ensure_mistake_coverage, unless the verdict was correct with no
\* failed finding (the path that generates no synthetic deduction),
\* round(score_total,1) + round(sum of points_deducted,1) is 10.0 within 0.05
\* and every surviving deduction is a whole multiple of 0.1.
C2_BalancedUnlessVerifiedCorrect ==
  (stage = "coverage" /\ ~VerifiedCorrect(before, report)) => DeductionsBalance(validated)

\* The balancer added entries to a list that held a deduction of 0.25 and
\* moved the score.
C2_Witness ==
  /\ stage = "coverage"
  /\ ~VerifiedCorrect(before, report)
  /\ \E i \in 1..Len(before.mistakes) : before.mistakes[i].points_deducted = 250
  /\ Len(validated.mistakes) > Len(before.mistakes)
  /\ validated.score_total # before.score_total

\* A reason shorter than 8 characters or one of the fixed boilerplate phrases.
NotActionable(reason) == reason.len < 8 \/ reason \in _DEFAULT_GENERIC_EVIDENCE

\* C3: when the report has at least one step or finding, every mistake whose
\* reason is not actionable leaves _enforce_evidence_gate with
\* points_deducted = 0, severity low and evidence carrying a
\* [step:..][rule:..] tag; a mistake with an actionable reason keeps its
\* points_deducted.
C3_GateZeroesUnprovenDeductions ==
  (stage = "gate" /\ (report.steps # <<>> \/ report.findings # <<>>)) =>
     /\ Len(validated.mistakes) = Len(before.mistakes)
     /\ \A i \in 1..Len(before.mistakes) :
          IF NotActionable(GateReasonText(before.mistakes[i]))
          THEN /\ validated.mistakes[i].points_deducted = 0
               /\ validated.mistakes[i].severity = "low"
               /\ validated.mistakes[i].evidence.step # ""
               /\ validated.mistakes[i].evidence.rule # ""
          ELSE validated.mistakes[i].points_deducted = before.mistakes[i].points_deducted

\* The gate met, with steps in the report, a boilerplate deduction of 0.5
\* without a tag and a concrete deduction beside it.
C3_Witness ==
  /\ stage = "gate"
  /\ report.steps # <<>>
  /\ \E i, j \in 1..Len(before.mistakes) :
        /\ before.mistakes[i].evidence = Untagged(GenericEvidenceB)
        /\ before.mistakes[i].points_deducted > 0
        /\ validated.mistakes[i].points_deducted = 0
        /\ ~NotActionable(GateReasonText(before.mistakes[j]))
        /\ validated.mistakes[j].points_deducted > 0

\* A failing final-substitution or equivalence-transform finding that
\* carries a counterexample.
CriticalFailure(verification) ==
  \E i \in 1..Len(verification.findings) :
     /\ ~verification.findings[i].passed
     /\ verification.findings[i].rule \in {"RULE_FINAL_SUBSTITUTION", "RULE_EQUIV_TRANSFORM"}
     /\ verification.findings[i].counterexample.len > 0

\* No finding and neither expected_x nor observed_x.
NoVerificationContext(verification) ==
  verification.findings = <<>> /\ verification.expected_x = <<>>
     /\ verification.observed_x = <<>>

HoldForcedOff(verification) ==
  CriticalFailure(verification) \/ NoVerificationContext(verification)

\* The blended confidence is the confidence the policy stores.
HoldWanted ==
  \/ validated.confidence < UncertaintyThreshold
  \/ consensus_meta.agreement < ConsensusMinAgreement
  \/ report.requires_review

\* C4: whenever _apply_uncertainty_policy holds (blended confidence below the
\* uncertainty threshold, or agreement below the minimum agreement, or
\* requires_review, and hold not forced off), on return the mistake list is
\* non-empty, every mistake has points_deducted = 0 and severity low, and
\* score_total is in [8.0, 8.8] whatever it was before.
C4_HoldPostcondition ==
  (stage = "uncertainty" /\ HoldWanted /\ ~HoldForcedOff(report)) =>
     /\ validated.mistakes # <<>>
     /\ \A i \in 1..Len(validated.mistakes) :
          /\ validated.mistakes[i].points_deducted = 0
          /\ validated.mistakes[i].severity = "low"
     /\ validated.score_total >= 8000
     /\ validated.score_total <= 8800

\* A hold on a result with score 5.0 and a deduction of 1.5: the deduction is
\* zeroed and the score raised to 8.0.
C4_Witness ==
  /\ stage = "uncertainty"
  /\ HoldWanted
  /\ ~HoldForcedOff(report)
  /\ before.score_total = 5000
  /\ \E i \in 1..Len(before.mistakes) : before.mistakes[i].points_deducted = 1500
  /\ validated.score_total = 8000

\* C5: if the report holds a failing RULE_FINAL_SUBSTITUTION or
\* RULE_EQUIV_TRANSFORM finding with a counterexample, or has no findings and
\* neither expected_x nor observed_x, then for every model confidence,
\* verifier confidence, agreement and requires_review the policy leaves
\* mistakes, score_total, rubric_scores, missing_info and next_checklist
\* unchanged; only confidence is overwritten, with the blend
\* 0.5*model + 0.3*verifier + 0.2*agreement rounded to 2 places.
C5_ForcedOffChangesOnlyConfidence ==
  (stage = "uncertainty" /\ HoldForcedOff(report)) =>
     /\ validated = [before EXCEPT !.confidence = validated.confidence]
     /\ validated.confidence % 10 = 0
     /\ Abs(10 * validated.confidence
              - (5 * before.confidence + 3 * report.confidence
                   + 2 * consensus_meta.agreement)) <= 50

\* The policy met a refuted final check, and a report without context, with
\* low confidences, low agreement and a review request, and a deduction to
\* keep.
C5_Witness ==
  /\ stage = "uncertainty"
  /\ HoldForcedOff(report)
  /\ before.confidence = 200
  /\ report.confidence = 200
  /\ consensus_meta.agreement = 400
  /\ report.requires_review
  /\ \E i \in 1..Len(validated.mistakes) : validated.mistakes[i].points_deducted = 1500
  /\ validated.confidence = 240

FailedFinalCheck(verification) ==
  \E i \in 1..Len(verification.findings) :
     /\ ~verification.findings[i].passed
     /\ verification.findings[i].rule = "RULE_FINAL_SUBSTITUTION"

\* C6: if the report holds a failing RULE_FINAL_SUBSTITUTION finding, then
\* after _apply_verified_wrong_final_cap score_total <= 7.0, rubric final
\* <= 0.8 and the list holds a FINAL_FORM_ERROR mistake of severity high with
\* points_deducted >= 1.8; without such a finding the result is unchanged.
C6_WrongFinalCap ==
  stage = "cap" =>
     IF FailedFinalCheck(report)
     THEN /\ validated.score_total <= 7000
          /\ validated.rubric_scores["final"] <= 800
          /\ \E i \in 1..Len(validated.mistakes) :
                /\ validated.mistakes[i].type = "FINAL_FORM_ERROR"
                /\ validated.mistakes[i].severity = "high"
                /\ validated.mistakes[i].points_deducted >= 1800
     ELSE validated = before

\* The cap met a failed final check on a perfect score whose list already
\* held a FINAL_FORM_ERROR deduction of 1.5.
C6_Witness ==
  /\ stage = "cap"
  /\ FailedFinalCheck(report)
  /\ before.score_total = 10000
  /\ before.rubric_scores["final"] = 2000
  /\ \E i \in 1..Len(before.mistakes) :
        /\ before.mistakes[i].type = "FINAL_FORM_ERROR"
        /\ before.mistakes[i].points_deducted = 1500
  /\ validated.score_total <= 7000

\* The verdict the stated priority gives for a report.
PriorityVerdict(verification) ==
  LET f == verification.findings
      final(i) == f[i].rule = "RULE_FINAL_SUBSTITUTION"
      transform(i) == f[i].rule = "RULE_EQUIV_TRANSFORM"
      refuted(i) == ~f[i].passed /\ f[i].counterexample.len > 0
  IN IF \E i \in 1..Len(f) : final(i) /\ refuted(i) THEN "incorrect"
     ELSE IF \E i \in 1..Len(f) : final(i) /\ f[i].passed THEN "correct"
     ELSE IF \E i \in 1..Len(f) : transform(i) /\ refuted(i) THEN "incorrect"
     ELSE IF verification.expected_x # <<>> /\ verification.observed_x # <<>>
     THEN IF verification.expected_x[1] - verification.observed_x[1] <= 50
             /\ verification.observed_x[1] - verification.expected_x[1] <= 50
          THEN "correct" ELSE "incorrect"
     ELSE "unknown"

PriorDecided == before.answer_verdict \in {"correct", "incorrect"}

\* C7: the verdict derived from the report follows the priority: a failing
\* final substitution with a counterexample gives incorrect; else a passing
\* final substitution gives correct; else a failing equivalence transform
\* with a counterexample gives incorrect; else, with both expected_x and
\* observed_x, correct when they differ by at most 0.05 and incorrect when
\* not; else unknown.  The derived verdict is the one stored whenever the
\* result asserted none before or the derived one is decided.
C7_VerdictPriority ==
  (stage = "verdict" /\ (~PriorDecided \/ PriorityVerdict(report) # "unknown")) =>
     validated.answer_verdict = PriorityVerdict(report)

\* A report with a refuted and a passing final check gave incorrect.
C7_Witness ==
  /\ stage = "verdict"
  /\ ~PriorDecided
  /\ \E i, j \in 1..Len(report.findings) :
        /\ report.findings[i] = FinalFinding("s2", "pass")
        /\ report.findings[j] = FinalFinding("s2", "fail")
  /\ validated.answer_verdict = "incorrect"

\* C8: after _apply_answer_verdict_policy, a derived verdict of correct or
\* incorrect is the stored answer_verdict whatever the result asserted
\* before; with a derived verdict of unknown a prior correct/incorrect is
\* kept, and a prior unknown or absent value stays unknown, whatever the
\* score.
C8_PriorVerdictOneDirectional ==
  stage = "verdict" =>
     IF _derive_answer_verdict(report) \in {"correct", "incorrect"}
     THEN validated.answer_verdict = _derive_answer_verdict(report)
     ELSE IF PriorDecided
     THEN validated.answer_verdict = before.answer_verdict
     ELSE validated.answer_verdict = "unknown"

\* A prior incorrect kept by a report that decides nothing.
C8_Witness ==
  /\ stage = "verdict"
  /\ before.answer_verdict = "incorrect"
  /\ _derive_answer_verdict(report) = "unknown"
  /\ validated.answer_verdict = "incorrect"

\* The band of a decided verdict: the score and the final rubric dimension.
DecidedBand ==
  /\ validated.answer_verdict = "correct" =>
        /\ validated.score_total >= 7000
        /\ validated.score_total <= 10000
        /\ (before.score_total >= 7000 /\ before.score_total <= 10000) =>
              validated.score_total >= before.score_total
        /\ validated.rubric_scores["final"] >= 1200
  /\ validated.answer_verdict = "incorrect" =>
        /\ validated.score_total >= 0
        /\ validated.score_total <= 7000
        /\ validated.score_total <= before.score_total
        /\ validated.rubric_scores["final"] <= 800

\* C9 as stated: after _apply_answer_verdict_policy a correct verdict gives a
\* score in [7,10], not lower than a score that was already in [7,10]; an
\* incorrect verdict gives a score in [0,7], never higher than before; an
\* unknown verdict leaves score_total unchanged; rubric final is <= 0.8 for
\* incorrect and >= 1.2 for correct.
C9_ScoreBandUnknownUnchanged ==
  stage = "verdict" =>
     /\ DecidedBand
     /\ validated.answer_verdict = "unknown" => validated.score_total = before.score_total

\* C9: as above, but an unknown verdict leaves score_total unchanged up to
\* its rounding to two decimals.
C9_ScoreBandUnknownRounded ==
  stage = "verdict" =>
     /\ DecidedBand
     /\ validated.answer_verdict = "unknown" =>
           /\ validated.score_total % 10 = 0
           /\ Abs(validated.score_total - before.score_total) <= 5

\* The policy rounded a score of 7.333 to 7.33 under an unknown verdict.
C9_Witness ==
  /\ stage = "verdict"
  /\ validated.answer_verdict = "unknown"
  /\ before.score_total = 7333
  /\ validated.score_total = 7330

\* The input mistakes that carry the (step id, rule) key of mistake m.
SameKeyInputs(m) ==
  {i \in 1..Len(before.mistakes) : StepRuleKey(before.mistakes[i]) = StepRuleKey(m)}

\* C10: after _dedupe_mistakes_by_step_rule no two mistakes share a (step id,
\* rule) key; for each key the surviving mistake has the maximum
\* points_deducted and the highest severity of the input mistakes with that
\* key; and the list is ordered by points_deducted descending, then severity
\* descending.
C10_DedupKeepsMaxPerKey ==
  stage = "dedupe" =>
     /\ \A i, j \in 1..Len(validated.mistakes) :
          i # j => StepRuleKey(validated.mistakes[i]) # StepRuleKey(validated.mistakes[j])
     /\ \A i \in 1..Len(before.mistakes) :
          \E k \in 1..Len(validated.mistakes) :
             StepRuleKey(validated.mistakes[k]) = StepRuleKey(before.mistakes[i])
     /\ \A k \in 1..Len(validated.mistakes) :
          LET m == validated.mistakes[k]
              inputs == SameKeyInputs(m)
          IN /\ inputs # {}
             /\ \E i \in inputs : before.mistakes[i].points_deducted = m.points_deducted
             /\ \A i \in inputs : before.mistakes[i].points_deducted <= m.points_deducted
             /\ \E i \in inputs : before.mistakes[i].severity = m.severity
             /\ \A i \in inputs :
                  _severity_rank(before.mistakes[i].severity) <= _severity_rank(m.severity)
     /\ \A k \in 1..(Len(validated.mistakes) - 1) :
          \/ validated.mistakes[k].points_deducted > validated.mistakes[k + 1].points_deducted
          \/ /\ validated.mistakes[k].points_deducted
                  = validated.mistakes[k + 1].points_deducted
             /\ _severity_rank(validated.mistakes[k].severity)
                  >= _severity_rank(validated.mistakes[k + 1].severity)

\* Two mistakes with one key collapsed into one with the points of the
\* second.
C10_Witness ==
  /\ stage = "dedupe"
  /\ Len(before.mistakes) = 2
  /\ StepRuleKey(before.mistakes[1]) = StepRuleKey(before.mistakes[2])
  /\ Len(validated.mistakes) = 1
  /\ validated.mistakes[1].points_deducted > before.mistakes[1].points_deducted

\* The classification of a*x + b = 0 from its coefficients.
Classification(equation) ==
  IF equation.a # 0 THEN "single"
  ELSE IF equation.b = 0 THEN "identity"
  ELSE "inconsistent"

\* |(-b1/a1) - (-b2/a2)| <= 0.05 for two single-root equations, without
\* dividing.
RootsWithinTolerance(first, second) ==
  20 * Abs(second.b * first.a - first.b * second.a) <= Abs(first.a * second.a)

SameSolutions(first, second) ==
  /\ Classification(first) = Classification(second)
  /\ Classification(first) = "single" => RootsWithinTolerance(first, second)

\* The equations of the steps that parse, in order.
ParsedStepEquations(reading) ==
  SelectSeq([k \in 1..Len(reading.steps) |-> _parse_linear_equation(reading.steps[k])],
            LAMBDA equation : equation.kind # "none")

\* C11: two parsed linear equations are reported equivalent exactly when
\* they have the same classification (identity, inconsistent, single root)
\* and, when both have a single root, the roots differ by at most 0.05; the
\* step chain x+1=4, x=4-1 is equivalent and the chain x+1=4, x=5 is not.
C11_EquivalentIffSameSolutions ==
  stage = "report" =>
     /\ \A idx \in 1..(Len(ParsedStepEquations(ocr)) - 1) :
           /\ report.findings[idx].rule = "RULE_EQUIV_TRANSFORM"
           /\ report.findings[idx].passed
                <=> SameSolutions(ParsedStepEquations(ocr)[idx],
                                  ParsedStepEquations(ocr)[idx + 1])
     /\ ocr.steps = <<XPlus1Is4, XIs4Minus1>> => report.findings[1].passed
     /\ ocr.steps = <<XPlus1Is4, XIs5>> => ~report.findings[1].passed

\* The chain x+1=4, x=5 was checked and its transition reported as failing,
\* with the two solved forms as the counterexample.
C11_Witness ==
  /\ stage = "report"
  /\ ocr.steps = <<XPlus1Is4, XIs5>>
  /\ ~report.findings[1].passed
  /\ report.findings[1].counterexample = Text(14, {"s1", "x=3", "s2", "x=5"})


\* The equation the final value is checked against.
ExpectedEquation(reading) == ParsedExpected(reading, ParsedStepIds(reading.steps))

\* |v - (-b/a)| <= 0.05, without dividing.
WithinRootTolerance(equation, value) ==
  Abs(equation.a * value + 1000 * equation.b) <= 50 * Abs(equation.a)

FinalFindingOf(verification) == verification.findings[Len(verification.findings)]

SingleRootObserved(reading) ==
  /\ ExpectedEquation(reading).kind # "none"
  /\ Classification(ExpectedEquation(reading)) = "single"
  /\ reading.observed_x # <<>>

\* C12: when the expected equation has a single root r and a final value v
\* was observed, the RULE_FINAL_SUBSTITUTION finding passes if and only if
\* |v - r| <= 0.05, whatever the coefficient of x; on a mismatch it fails
\* and its counterexample names the observed and the expected value.
C12_FinalPassesIffWithinRootTolerance ==
  (stage = "report" /\ SingleRootObserved(ocr)) =>
     /\ report.findings # <<>>
     /\ FinalFindingOf(report).rule = "RULE_FINAL_SUBSTITUTION"
     /\ FinalFindingOf(report).passed
          <=> WithinRootTolerance(ExpectedEquation(ocr), ocr.observed_x[1])
     /\ ~FinalFindingOf(report).passed =>
          {"x=" \o FormatG(ocr.observed_x[1]), "expected",
           _equation_solution_text(ExpectedEquation(ocr))}
             \subseteq FinalFindingOf(report).counterexample.toks

\* The problem 2x=6 with the final value 3.04: the value is within 0.05 of
\* the root 3 and the finding fails, naming x=3.04 against x=3.
C12_Witness ==
  /\ stage = "report"
  /\ ocr.problem = <<TwoXIs6>>
  /\ ocr.observed_x = <<3040>>
  /\ ~FinalFindingOf(report).passed
  /\ FinalFindingOf(report).counterexample = Text(20, {"x=3.04", "expected", "x=3"})


\* |a*v + b| <= 0.05: the value substituted into the equation.
WithinResidualTolerance(equation, value) ==
  Abs(equation.a * value + 1000 * equation.b) <= 50 * 1000

\* C12, as the code decides it: with an expected equation of a single root
\* and an observed final value, the finding passes if and only if the
\* residual |a*v + b| is at most 0.05, which is |v - r| <= 0.05 / |a|; a
\* failing finding names the observed and the expected value.
C12_FinalPassesIffResidualSmall ==
  (stage = "report" /\ SingleRootObserved(ocr)) =>
     /\ report.findings # <<>>
     /\ FinalFindingOf(report).rule = "RULE_FINAL_SUBSTITUTION"
     /\ FinalFindingOf(report).passed
          <=> WithinResidualTolerance(ExpectedEquation(ocr), ocr.observed_x[1])
     /\ ~FinalFindingOf(report).passed =>
          {"x=" \o FormatG(ocr.observed_x[1]), "expected",
           _equation_solution_text(ExpectedEquation(ocr))}
             \subseteq FinalFindingOf(report).counterexample.toks


\* The scores of the runs and their k-th smallest.
RunScores == [i \in 1..Len(validated_runs) |-> validated_runs[i].score_total]

KthSmallest(values, k) ==
  CHOOSE v \in {values[i] : i \in 1..Len(values)} :
     /\ Cardinality({i \in 1..Len(values) : values[i] < v}) < k
     /\ Cardinality({i \in 1..Len(values) : values[i] <= v}) >= k

\* Twice the median of the scores.
TwiceMedianScore ==
  KthSmallest(RunScores, (Len(RunScores) + 1) \div 2)
    + KthSmallest(RunScores, Len(RunScores) \div 2 + 1)

ScoreSpread ==
  KthSmallest(RunScores, Len(RunScores)) - KthSmallest(RunScores, 1)

\* The keys the runs' mistakes fall under, and those of the merged list.
TotalBuckets ==
  {_consensus_mistake_key(validated_runs[i].mistakes[j]) :
     <<i, j>> \in {<<i, j>> \in (1..Len(validated_runs)) \X (1..MaxMistakeCount) :
                     j <= Len(validated_runs[i].mistakes)}}

SurvivingBuckets ==
  {_consensus_mistake_key(validated.mistakes[k]) : k \in 1..Len(validated.mistakes)}

\* The average of score agreement and mistake agreement as the fraction
\* n/d of thousandths, clamped to [0, 1].
AverageAgreement ==
  LET total == IF TotalBuckets = {} THEN 1 ELSE Cardinality(TotalBuckets)
      surviving == IF TotalBuckets = {} THEN 1 ELSE Cardinality(SurvivingBuckets)
  IN [n |-> _clamp((3000 - Min(3000, ScoreSpread)) * total + 3000 * surviving,
                   0, 6000 * total),
      d |-> 6 * total]

MergedSeveral == stage = "merge" /\ ~fallback_used /\ Len(validated_runs) > 1

PassedThrough ==
  (stage = "merge" /\ ~fallback_used /\ Len(validated_runs) = 1) =>
     /\ validated = validated_runs[1]
     /\ consensus_meta.agreement = 1000
     /\ consensus_meta.score_spread = 0

\* C13, as stated: for more than one run the merged score is the median of
\* the runs' scores, the spread is max minus min, and agreement is the
\* average of 1 - min(1, spread/3) and surviving/total buckets (1 without
\* buckets), clamped to [0,1]; a single run passes through unchanged with
\* agreement 1.0 and spread 0.
C13_ConsensusNumbersExact ==
  /\ PassedThrough
  /\ MergedSeveral =>
       /\ 2 * validated.score_total = TwiceMedianScore
       /\ consensus_meta.score_spread = ScoreSpread
       /\ consensus_meta.agreement * AverageAgreement.d = AverageAgreement.n

\* C13, with the rounding of the code: the merged score is the median
\* rounded to two decimals, the spread is max minus min (to three
\* decimals), and agreement is the clamped average rounded to two decimals.
C13_ConsensusNumbersRounded ==
  /\ PassedThrough
  /\ MergedSeveral =>
       /\ validated.score_total = round2(TwiceMedianScore, 2)
       /\ consensus_meta.score_spread = ScoreSpread
       /\ consensus_meta.agreement = round2(AverageAgreement.n, AverageAgreement.d)

\* Three runs with scores 10, 8.5 and 7.333 merged: median 8.5, spread
\* 2.667, and every key voted once out of three is dropped or kept.
C13_Witness ==
  /\ MergedSeveral
  /\ Len(validated_runs) = 3
  /\ ScoreSpread = 2667
  /\ validated.score_total = 8500
  /\ Cardinality(SurvivingBuckets) < Cardinality(TotalBuckets)


\* The mistakes of all runs as <<run, position>> pairs, and those under a key.
RunMistakeSlots ==
  {slot \in (1..Len(validated_runs)) \X (1..MaxMistakeCount) :
     slot[2] <= Len(validated_runs[slot[1]].mistakes)}

SlotMistake(slot) == validated_runs[slot[1]].mistakes[slot[2]]

Bucket(key) == {slot \in RunMistakeSlots : _consensus_mistake_key(SlotMistake(slot)) = key}

\* The runs that reported a mistake under the key.
Reporters(key) == {slot[1] : slot \in Bucket(key)}

VoteThreshold == (Len(validated_runs) + 1) \div 2

\* (points_deducted, severity rank) of the first is not below the second's.
NotOutranked(first, second) ==
  \/ first.points_deducted > second.points_deducted
  \/ /\ first.points_deducted = second.points_deducted
     /\ _severity_rank(first.severity) >= _severity_rank(second.severity)

\* The merged entry is a member of its bucket (its location hint cleaned)
\* that no member outranks.
IsRepresentative(merged) ==
  \E slot \in Bucket(_consensus_mistake_key(merged)) :
     /\ merged = [SlotMistake(slot) EXCEPT !.location_hint = merged.location_hint]
     /\ \A other \in Bucket(_consensus_mistake_key(merged)) :
           NotOutranked(SlotMistake(slot), SlotMistake(other))

\* C14, as stated: for more than one run a mistake key is in the merged
\* result only if at least ceil(N/2) of the N runs reported a mistake with
\* that key, and the merged entry is the bucket member with the highest
\* (points_deducted, severity rank).
C14_MergedOnlyIfMajorityOfRuns ==
  MergedSeveral =>
     \A k \in 1..Len(validated.mistakes) :
        /\ Cardinality(Reporters(_consensus_mistake_key(validated.mistakes[k])))
             >= VoteThreshold
        /\ IsRepresentative(validated.mistakes[k])

\* C14, as the code counts: a key is in the merged result exactly when the
\* mistakes filed under it, over all runs, number at least ceil(N/2); two
\* mistakes of one run count twice.  The merged entry is a bucket member
\* that none outranks.
C14_MergedIffEnoughEntries ==
  MergedSeveral =>
     /\ \A k \in 1..Len(validated.mistakes) : IsRepresentative(validated.mistakes[k])
     /\ \A key \in TotalBuckets :
           key \in SurvivingBuckets <=> Cardinality(Bucket(key)) >= VoteThreshold

\* One of three runs files two mistakes under the same type and location;
\* the other two report nothing, and the merged result still carries it.
C14_Witness ==
  /\ MergedSeveral
  /\ validated_runs = <<TwiceReportedRun, RunResult(0), RunResult(0)>>
  /\ Len(validated.mistakes) = 1
  /\ validated.mistakes[1].type = "ARITHMETIC_ERROR"
  /\ validated.mistakes[1].points_deducted = 600


\* The orders the runs of the job could have arrived in.
RunOrders(n) == {p \in [1..n -> 1..n] : \A i, j \in 1..n : i # j => p[i] # p[j]}

Reordered(runs, p) == [i \in 1..Len(runs) |-> runs[p[i]]]

MergedFrom(runs) == _merge_consensus_results(runs, consensus_meta.runs_requested)

VotedPart(mistake) ==
  <<_consensus_mistake_key(mistake), mistake.points_deducted, mistake.severity>>

VotedParts(result) == {VotedPart(result.mistakes[k]) : k \in 1..Len(result.mistakes)}

SeqRange(s) == {s[i] : i \in 1..Len(s)}

\* Twice the distance of a run's score from the median of the scores.
TwiceDistance(run) == Abs(2 * run.score_total - TwiceMedianScore)

ClosestRuns ==
  {run \in SeqRange(validated_runs) :
     \A other \in SeqRange(validated_runs) : TwiceDistance(run) <= TwiceDistance(other)}

AllRunsFailed == mode = "job" /\ raw_runs # <<>> /\ OfKind(raw_runs, "valid") = <<>>

\* LoadFallback has returned a result: the first stage is behind.
FallbackLoaded == AllRunsFailed /\ stage # "start"

Running == pc \notin {"returned", "raised"}

\* The kind the RuntimeError of the generation carries.
ErrorKind ==
  IF \A i \in 1..Len(raw_runs) : raw_runs[i].kind = "transport_error"
  THEN "model_request_failed" ELSE "all_consensus_runs_invalid"

\* C16: when every requested run fails in transport or in validation and
\* the fallback file loads and validates, the generation error is not
\* raised: the fallback result enters the first stage after the merge, every
\* later stage runs in the order of the pipeline, and the write of the job
\* stores status done, fallback_used true, the result the stages left, and
\* an error code "analysis_error" with the kind of the error and a detail of
\* the message cut to at most 120 characters.  The only exception such a job
\* lets through is the one of a failing final write.
C16_FallbackRecovery ==
  FallbackLoaded =>
    /\ fallback_used
    /\ stage = "merge" => validated \in FallbackSamples
    /\ Running => raised = "" /\ pc = Following(stage) /\ db.analysis.status = "processing"
    /\ pc = "raised" => stage = "save" /\ raised = "OperationalError"
    /\ pc = "returned" =>
         /\ raised = ""
         /\ stage = "save"
         /\ db.analysis.status = "done"
         /\ db.analysis.fallback_used
         /\ db.analysis.result_json = <<validated>>
         /\ db.analysis.error_code.code = "analysis_error"
         /\ db.analysis.error_code.exception = "RuntimeError"
         /\ db.analysis.error_code.kind = ErrorKind
         /\ db.analysis.error_code.detail_len <= 120
         /\ db.analysis.error_code.detail_len
              = Min(120, GenerationError(raw_runs).message_len)

\* A job whose runs all failed validation with long messages is stored as
\* done with the fallback result and a detail cut to 120 characters.
C16_Witness ==
  /\ FallbackLoaded
  /\ pc = "returned"
  /\ db.analysis.status = "done"
  /\ db.analysis.fallback_used
  /\ db.analysis.error_code.kind = "all_consensus_runs_invalid"
  /\ GenerationError(raw_runs).message_len > 120
  /\ db.analysis.error_code.detail_len = 120
  /\ Len(db.mistakes) > 0


\* The positions of the requested runs whose payload validated.
ValidPositions == {i \in 1..Len(raw_runs) : raw_runs[i].kind = "valid"}

NthValidPosition(n) ==
  CHOOSE i \in ValidPositions : Cardinality({j \in ValidPositions : j <= i}) = n

\* The payloads that validated, in the order of the requests.
ValidPayloads ==
  [n \in 1..Cardinality(ValidPositions) |-> raw_runs[NthValidPosition(n)].result]

SomeRunValid == mode = "job" /\ ValidPositions # {}

\* C17: when at least one requested run returns a payload that validates,
\* whatever the other runs did, the consensus set is the validated payloads
\* in request order, the merge is the merge of those payloads alone with
\* runs_used their number and runs_requested the configured count, no
\* fallback is used and no error code is set, and the write of the job
\* stores fallback_used false and no error_code.
C17_PartialFailureAbsorbed ==
  SomeRunValid =>
    /\ validated_runs = ValidPayloads
    /\ ~fallback_used
    /\ error_code = NoErrorCode
    /\ Len(raw_runs) = Max(1, ConsensusRuns)
    /\ stage # "start" =>
         /\ consensus_meta.runs_used = Cardinality(ValidPositions)
         /\ consensus_meta.runs_requested = Max(1, ConsensusRuns)
         /\ consensus_meta
              = _merge_consensus_results(ValidPayloads, Max(1, ConsensusRuns)).meta
    /\ stage = "merge" =>
         validated = _merge_consensus_results(ValidPayloads, Max(1, ConsensusRuns)).result
    /\ pc = "returned" =>
         /\ db.analysis.status = "done"
         /\ ~db.analysis.fallback_used
         /\ db.analysis.error_code = NoErrorCode
         /\ db.analysis.result_json = <<validated>>

\* Three runs were requested: the first and the third validated, the second
\* did not; the job is stored as done from the two.
C17_Witness ==
  /\ pc = "returned"
  /\ Len(raw_runs) = 3
  /\ raw_runs[1].kind = "valid"
  /\ raw_runs[2].kind = "invalid"
  /\ raw_runs[3].kind = "valid"
  /\ raw_runs[1].result # raw_runs[3].result
  /\ consensus_meta.runs_used = 2
  /\ consensus_meta.runs_requested = 3
  /\ db.analysis.status = "done"
  /\ ~db.analysis.fallback_used


TerminalStatus == db.analysis.status \in {"done", "failed"}

\* The exception of _load_fallback_result left the job before any stage:
\* nothing between it and the caller sets a status.
FallbackRaised ==
  /\ pc = "raised"
  /\ raised \in {"RuntimeError", "JSONDecodeError"}
  /\ stage = "start"
  /\ db.analysis.status = "processing"

\* The invocation is over: it returned or let an exception through.
Ended == mode = "job" /\ pc \in {"returned", "raised"}

\* C18: every invocation of process_analysis_job, once it has moved the job
\* from queued to processing, ends with the job in status done or failed;
\* none ends with the job still in processing.
C18_EveryJobEndsTerminal == [](Ended => TerminalStatus)

\* What the job does guarantee: the status is processing while it runs, and
\* it ends in done or failed unless the fallback file could not be loaded.
C18_TerminalUnlessFallbackFails ==
  /\ mode = "job" /\ pc # "queued" /\ Running => db.analysis.status = "processing"
  /\ Ended => TerminalStatus \/ FallbackRaised
  /\ Ended /\ TerminalStatus => (db.analysis.status = "done" <=> pc = "returned")

\* Every run failed and the fallback file is absent: the invocation has ended
\* with its RuntimeError and the job is still in processing.
C18_Witness ==
  /\ AllRunsFailed
  /\ pc = "raised"
  /\ raised = "RuntimeError"
  /\ fallback_used
  /\ db.analysis.status = "processing"
  /\ db.analysis.result_json = <<>>


\* The final write failed: save_analysis_result raised inside its
\* transaction and the job marked the analysis failed.
WriteFailed == mode = "job" /\ pc = "raised" /\ raised = "OperationalError"

ReadAnalysis == get_analysis(db)

\* The mistakes of the stored result.
StoredMistakes == db.analysis.result_json[1].mistakes

TwoOverlappingBoxes ==
  /\ mode = "unit"
  /\ stage = "hints"
  /\ Len(boxes.suggested) = 2
  /\ Len(NormalizedBoxes(boxes.suggested)) = 2
  /\ _box_bounds(NormalizedBoxes(boxes.suggested)[1]) # <<>>
  /\ _box_bounds(NormalizedBoxes(boxes.suggested)[2]) # <<>>
  /\ XOverlapAtLeast(_box_bounds(NormalizedBoxes(boxes.suggested)[1])[1],
                     _box_bounds(NormalizedBoxes(boxes.suggested)[2])[1], 55)
  /\ YOverlapAtLeast(_box_bounds(NormalizedBoxes(boxes.suggested)[1])[1],
                     _box_bounds(NormalizedBoxes(boxes.suggested)[2])[1], 18)

\* Twice the height of the part of a box that lies on the page.
TwiceVisibleHeight(box) == _box_bounds(box)[1].y1 - _box_bounds(box)[1].y0

GuardrailsDone == mode = "job" /\ stage = "reconcile"

\* C22 as stated: when the report holds a failing RULE_FINAL_SUBSTITUTION
\* finding, with or without a counterexample, the result at the end of the
\* guardrail sequence has score_total <= 7.0 and rubric final <= 0.8.
C22_WrongFinalCapSurvives ==
  (GuardrailsDone /\ FinalFailures(report) # <<>>) =>
    /\ validated.score_total <= ScoreCap
    /\ validated.rubric_scores.final <= 800


\* A failing final-substitution finding that carries a counterexample.
RefutedFinal(verification) ==
  \E i \in 1..Len(FinalFailures(verification)) :
     HasCounterexample(FinalFailures(verification)[i])

\* What the sequence does keep: the cap of a failing final finding with a
\* counterexample, which also makes the verdict incorrect.
C22_RefutedFinalCapSurvives ==
  (GuardrailsDone /\ RefutedFinal(report)) =>
    /\ validated.score_total <= ScoreCap
    /\ validated.rubric_scores.final <= 800
    /\ validated.answer_verdict = "incorrect"

\* The final value could not be read (a failing finding without a
\* counterexample), the run had judged the answer correct, and the sequence
\* ends above the cap.
C22_Witness ==
  /\ GuardrailsDone
  /\ FinalFailures(report) # <<>>
  /\ ~RefutedFinal(report)
  /\ validated.answer_verdict = "correct"
  /\ validated.score_total > ScoreCap


\* The mark the hold leaves: the first checklist entry is the review-first
\* instruction, which no run carries and no later stage rewrites.
Held(result) == result.next_checklist # <<>> /\ result.next_checklist[1] = "review_first"

AllPointsZero(result) ==
  \A i \in 1..Len(result.mistakes) : result.mistakes[i].points_deducted = 0

\* The uncertainty policy has just run and held.
HoldJustApplied ==
  mode = "job" /\ stage = "uncertainty" /\ ShouldHold(before, report, consensus_meta)

\* C23 as stated: in a run of the guardrail sequence in which the
\* uncertainty policy holds, the result at the end of the sequence still has
\* every points_deducted equal to 0 and score_total in [8.0, 8.8].
C23_HoldSurvives ==
  (GuardrailsDone /\ Held(validated)) =>
    /\ AllPointsZero(validated)
    /\ validated.score_total >= ScoreFloor
    /\ validated.score_total <= ReviewCeiling


\* What the sequence does keep of a hold: right after the policy every
\* deduction is 0 and the score lies in [8.0, 8.8]; at the end the score is
\* still at least 8.0 unless the verdict is incorrect, and at most 7.0 when
\* it is.
C23_HoldUntilVerdictPolicy ==
  /\ HoldJustApplied =>
       /\ Held(validated)
       /\ AllPointsZero(validated)
       /\ validated.score_total >= ScoreFloor
       /\ validated.score_total <= ReviewCeiling
  /\ (GuardrailsDone /\ Held(validated)) =>
       /\ validated.answer_verdict # "incorrect" => validated.score_total >= ScoreFloor
       /\ validated.answer_verdict = "incorrect" => validated.score_total <= ScoreCap

\* A job whose deductions were held ends the sequence with positive
\* deductions and a score above the review ceiling.
C23_Witness ==
  /\ GuardrailsDone
  /\ Held(validated)
  /\ ~AllPointsZero(validated)
  /\ validated.score_total > ReviewCeiling

\* The gate has just read the mistake of a candidate that validated.
GatedCandidate ==
  /\ mode = "unit" /\ stage = "gate" /\ candidate.accepted
  /\ candidate.data.mistakes # <<>>
  /\ GateHasContext(report)

\* Evidence that is missing, empty or the default phrase of the normalizer.
WithoutEvidence(item) == item.evidence \in {EmptyText, GenericEvidenceA, ShortGenericA}

\* C24 as stated: a candidate mistake whose evidence is missing, empty or
\* generic boilerplate has points_deducted 0 after _validate_result and then
\* the evidence gate with a non-empty verification context.
C24_UnprovenZeroedAcrossNormalization ==
  (GatedCandidate /\ (WithoutEvidence(candidate.data.mistakes[1])
                         \/ candidate.data.mistakes[1].evidence \in _DEFAULT_GENERIC_EVIDENCE))
    => validated.mistakes[1].points_deducted = 0

\* C24, what the code does: _normalize_evidence replaces a missing, empty
\* or listed generic evidence by the template of the mistake type, the gate
\* takes the template as an actionable reason, and the deduction of the
\* normalized mistake goes through the gate as it is; only the generic
\* phrase the normalizer does not list is zeroed.
C24_TemplatePassesTheGate ==
  GatedCandidate =>
    /\ WithoutEvidence(candidate.data.mistakes[1]) =>
          /\ candidate.normalized.mistakes[1].evidence
               = Untagged(EvidenceTemplate(candidate.normalized.mistakes[1].type))
          /\ validated.mistakes[1].points_deducted
               = candidate.normalized.mistakes[1].points_deducted
          /\ validated.mistakes[1].severity = candidate.normalized.mistakes[1].severity
    /\ candidate.data.mistakes[1].evidence = GenericEvidenceB =>
          validated.mistakes[1].points_deducted = 0

C24_Witness ==
  /\ GatedCandidate
  /\ candidate.data.mistakes[1].evidence = EmptyText
  /\ candidate.data.mistakes[1].points_deducted = <<>>
  /\ validated.mistakes[1].points_deducted = 500
  /\ HasTag(validated.mistakes[1].evidence)

\* _validate_result has returned or raised for a candidate with a mistake.
ValidatedCandidate ==
  /\ mode = "unit" /\ stage \in {"validate", "gate"}
  /\ candidate.data # NoResult
  /\ candidate.data.mistakes # <<>>

\* C30 as stated: a candidate mistake whose highlight lacks some of x, y, w,
\* h is accepted by _validate_result, with the highlight normalized to mode
\* tap.
C30_IncompleteHighlightAccepted ==
  (ValidatedCandidate /\ ~HighlightComplete(candidate.data.mistakes[1].highlight))
    => /\ candidate.accepted
       /\ candidate.normalized.mistakes[1].highlight.mode = "tap"

\* C30, what the code does: the highlight is normalized to mode tap without
\* the coordinates that are not numbers, the schema requires all of x, y,
\* w, h, and _validate_result raises; a candidate is accepted exactly when
\* the highlight of its mistake has the four coordinates.
C30_IncompleteHighlightRejected ==
  ValidatedCandidate =>
    /\ candidate.accepted <=> HighlightComplete(candidate.data.mistakes[1].highlight)
    /\ ~HighlightComplete(candidate.data.mistakes[1].highlight) =>
          /\ candidate.normalized.mistakes[1].highlight.mode = "tap"
          /\ ~HighlightComplete(candidate.normalized.mistakes[1].highlight)
          /\ raised = "RuntimeError" /\ pc = "rejected"

C30_Witness ==
  /\ ValidatedCandidate
  /\ candidate.data.mistakes[1].highlight = Highlight("tap", "circle", <<>>, <<>>, <<>>, <<>>)
  /\ candidate.data.mistakes[1].evidence = Text(34, {"sign", "because", "line"})
  /\ ~candidate.accepted

\* The balancer ran on the path that generates synthetic deductions.
Rebalanced == stage = "coverage" /\ ~SkipsSynthetic(before, report)

\* 10 minus the score the balancer received, rounded to a tenth.
TargetDeduction(result) ==
  _round_to_tenth(10000 - _round_to_tenth(_clamp(result.score_total, 0, 10000)))

HitsTarget(received, returned) ==
  /\ SeqSum(PointsOf(returned.mistakes)) = TargetDeduction(received)
  /\ \A i \in 1..Len(returned.mistakes) :
        /\ returned.mistakes[i].points_deducted >= 100
        /\ returned.mistakes[i].points_deducted <= 2000
        /\ returned.mistakes[i].points_deducted % 100 = 0
  /\ returned.score_total = _round_to_tenth(_clamp(received.score_total, 0, 10000))

\* C25 as stated: whenever synthetic generation is not skipped, the
\* deductions _ensure_mistake_coverage returns sum in tenths to exactly 10
\* minus the input score_total rounded to a tenth, each between 0.1 and 2.0,
\* and the score_total written back is the input score_total rounded to a
\* tenth.
C25_BalancerHitsTarget == Rebalanced => HitsTarget(before, validated)

\* No deduction above 0.04 came in and the target is a single tenth: the
\* gap does not exceed 0.1, so no entry is added and nothing can be priced.
NothingToPrice(result) ==
  PositiveDeductions(result.mistakes) = <<>> /\ TargetDeduction(result) = 100

\* C25, what the code does: the balancer hits the target and keeps the
\* rounded score except when it receives no deduction above 0.04 with a
\* score that rounds to 9.9; then it returns no mistake and writes 10.0.
C25_BalancerHitsTargetUnlessNothingToPrice ==
  Rebalanced =>
    IF NothingToPrice(before)
    THEN validated.mistakes = <<>> /\ validated.score_total = 10000
    ELSE HitsTarget(before, validated)

\* The balancer filled the gap of a score of 4.0 beside a deduction of 1.5.
C25_Witness ==
  /\ Rebalanced
  /\ before.score_total = 4000
  /\ Len(before.mistakes) = 1 /\ before.mistakes[1].points_deducted = 1500
  /\ Len(validated.mistakes) > 1
  /\ SeqSum(PointsOf(validated.mistakes)) = 6000
  /\ validated.score_total = 4000

\* The positions of the deductions above 0.04.
PositivePositions(mistakes) ==
  {j \in 1..Len(mistakes) : mistakes[j].points_deducted > 40}

\* C26: when answer_verdict is correct and no finding of the report failed,
\* _ensure_mistake_coverage adds no mistake: the returned mistakes are the
\* input mistakes with points_deducted above 0.04, unchanged, whatever the
\* gap between 10 - score_total and their sum, and score_total is not
\* raised.
C26_NoSyntheticForVerifiedCorrect ==
  (stage = "coverage" /\ VerifiedCorrect(before, report)) =>
     /\ Len(validated.mistakes) = Cardinality(PositivePositions(before.mistakes))
     /\ \A i \in 1..Len(validated.mistakes) :
          /\ validated.mistakes[i].points_deducted > 40
          /\ \E j \in PositivePositions(before.mistakes) :
                validated.mistakes[i] = before.mistakes[j]
     /\ validated.score_total <= before.score_total

\* A verified-correct result with a score of 4.0 and one deduction of 1.5
\* beside one of 0.03: the gap of 4.5 is left open.
C26_Witness ==
  /\ stage = "coverage" /\ VerifiedCorrect(before, report)
  /\ report.findings # <<>>
  /\ before.score_total = 4000
  /\ PointsOf(before.mistakes) = <<30, 1500>>
  /\ PointsOf(validated.mistakes) = <<1500>>
  /\ validated.score_total = 4000

\* The uncertainty policy has just held.
HoldApplied ==
  mode = "unit" /\ stage = "uncertainty" /\ ShouldHold(before, report, consensus_meta)

\* The review note of the hold that has just run.
WrittenReviewNote ==
  ReviewNote(BlendedConfidence(before, report, consensus_meta), consensus_meta.agreement)

\* C29 as stated: whenever the uncertainty policy holds, missing_info on
\* return contains the review note, for every prior content of missing_info
\* including a list of 6 entries, and has at most 6 entries.
C29_HoldLeavesReviewNote ==
  HoldApplied =>
    /\ InSeq(WrittenReviewNote, validated.missing_info)
    /\ Len(validated.missing_info) <= MaxMissingInfo

\* C29, what the code does: the note is appended and the list is cut to
\* its first 6 entries, so the note is there when fewer than 6 entries came
\* in, and a list of 6 entries comes back as it was, without the note.
C29_ReviewNoteUnlessFull ==
  HoldApplied =>
    /\ Len(validated.missing_info) <= MaxMissingInfo
    /\ IF Len(before.missing_info) < MaxMissingInfo
       THEN validated.missing_info = Append(before.missing_info, WrittenReviewNote)
       ELSE /\ validated.missing_info = before.missing_info
            /\ ~InSeq(WrittenReviewNote, validated.missing_info)

C29_Witness ==
  /\ HoldApplied
  /\ Len(before.missing_info) = MaxMissingInfo
  /\ Held(validated)
  /\ AllPointsZero(validated)
  /\ ~InSeq(WrittenReviewNote, validated.missing_info)

\* The step of the priority chain that gave the stored verdict: the final
\* substitution findings, the transform findings, the comparison of the
\* expected and the observed value, or the verdict the result came with.
DecidingStep(result, verification) ==
  IF AnyRefuted(FinalChecks(verification)) \/ AnyPassed(FinalChecks(verification))
  THEN "final"
  ELSE IF AnyRefuted(TransformFindings(verification)) THEN "transform"
  ELSE IF verification.expected_x # <<>> /\ verification.observed_x # <<>> THEN "numeric"
  ELSE IF _normalize_answer_verdict(result.answer_verdict) \in {"correct", "incorrect"}
  THEN "prior"
  ELSE "none"

\* The step a stored reason names.
NamedStep(reason) ==
  IF reason \in {"correct: final answer check passed", "incorrect: final answer check failed"}
  THEN "final"
  ELSE IF reason = "incorrect: step transform broke equivalence" THEN "transform"
  ELSE IF reason \in {"correct: final answer equals expected",
                      "incorrect: final answer differs from expected"}
  THEN "numeric"
  ELSE IF reason \in {"correct: auxiliary check agrees", "incorrect: auxiliary check disagrees"}
  THEN "prior"
  ELSE IF reason = "verdict held: verification information missing" THEN "none"
  ELSE "unspecific"

VerdictStored == mode = "unit" /\ stage = "verdict"

\* C28 as stated: after _apply_answer_verdict_policy the
\* answer_verdict_reason names the step of the priority chain that
\* determined the verdict; in particular a verdict that is incorrect because
\* of a refuted RULE_EQUIV_TRANSFORM finding has the transform reason,
\* whatever the other findings of the report.
C28_ReasonNamesDecidingStep ==
  VerdictStored =>
    NamedStep(validated.answer_verdict_reason) = DecidingStep(before, report)

\* A final finding that failed without a counterexample, and none that
\* passed or was refuted: it decides nothing.
UndecidedFinalFailure(verification) ==
  /\ AnyFailed(FinalChecks(verification))
  /\ ~AnyRefuted(FinalChecks(verification))
  /\ ~AnyPassed(FinalChecks(verification))

\* C28, what the code does: the reason names the deciding step except when
\* the transform findings or the value comparison gave the verdict
\* incorrect beside a final finding that failed without a counterexample;
\* the reason is then the one of the final check.
C28_ReasonNamesDecidingStepUnlessFinalUnreadable ==
  VerdictStored =>
    IF /\ UndecidedFinalFailure(report)
       /\ DecidingStep(before, report) \in {"transform", "numeric"}
       /\ validated.answer_verdict = "incorrect"
    THEN validated.answer_verdict_reason = "incorrect: final answer check failed"
    ELSE NamedStep(validated.answer_verdict_reason) = DecidingStep(before, report)

\* A refuted transform decided beside an unreadable final value.
C28_Witness ==
  /\ VerdictStored
  /\ report.findings = <<TransformFinding(2, FALSE), FinalFinding("s2", "unreadable")>>
  /\ DecidingStep(before, report) = "transform"
  /\ validated.answer_verdict = "incorrect"
  /\ validated.answer_verdict_reason = "incorrect: final answer check failed"

\* The stages of the guardrail sequence from the evidence gate on.
GatedStages == {"gate", "dedupe", "cap", "uncertainty", "verdict", "coverage", "reconcile"}

\* The evidence starts with a tag whose step id and rule _parse_provenance
\* gives back.
Stamped(evidence) ==
  /\ HasTag(evidence)
  /\ _parse_provenance(evidence).step = evidence.step
  /\ _parse_provenance(evidence).rule = evidence.rule

\* C27: once the evidence gate has run, and after every later stage of the
\* guardrail sequence (dedup, wrong-final cap, uncertainty policy with its
\* placeholder, verdict policy, balancer with its synthesized entries,
\* reconcile), the evidence of every mistake starts with a provenance tag
\* with a non-empty step id and rule that _parse_provenance recovers.
C27_ProvenanceAfterGate ==
  (mode = "job" /\ stage \in GatedStages) =>
     \A i \in 1..Len(validated.mistakes) : Stamped(validated.mistakes[i].evidence)

\* The sequence ended with a mistake of a run, stamped by the gate, beside
\* an entry the balancer synthesized.
C27_Witness ==
  /\ mode = "job" /\ stage = "reconcile"
  /\ \E i \in 1..Len(validated.mistakes) :
        validated.mistakes[i].evidence.rule = "RULE_SCORE_BALANCE"
  /\ \E i \in 1..Len(validated.mistakes) :
        /\ validated.mistakes[i].evidence.rule # "RULE_SCORE_BALANCE"
        /\ \E j \in 1..Len(validated_runs), k \in 1..MaxMistakes :
              /\ k <= Len(validated_runs[j].mistakes)
              /\ validated_runs[j].mistakes[k].type = validated.mistakes[i].type
              /\ ~HasTag(validated_runs[j].mistakes[k].evidence)


====
